---------------------------- MODULE Spec2Model ----------------------------
(***************************************************************************)
(* A model of scrape_insider_trades (src/analysis/scrapping.py): the page  *)
(* loop, the 3-attempt fetch with its two fixed delays, and the row-by-row *)
(* extraction of trade records from the results table of a page; and of    *)
(* the consumers of its table: analyze_insider_opportunities               *)
(* (src/analysis/score.py), save_to_csv, the chart functions               *)
(* (src/analysis/vizualisation.py), and the market-data operations         *)
(* (src/analysis/ticker.py); and of get_pagination_info.                   *)
(*                                                                         *)
(* Conventions.  A Python value that may be None is a sequence of length   *)
(* at most one: <<>> is None and <<v>> is the value v.  A local variable   *)
(* that has no binding yet (response before the first assignment) is <<>>  *)
(* as well.  Locals that are dead after their loop (attempt, rows, i,      *)
(* trade_record) are put back to their initial value when the loop is      *)
(* left.  Texts are the result of get_text(strip=True); a numeric cell is  *)
(* described by what int()/float() makes of its text.                      *)
(***************************************************************************)
EXTENDS Integers, Sequences, FiniteSets, TLC

(***************************************************************************)
(* Bounds of the model.                                                    *)
(***************************************************************************)
MaxPage == 2
\* Rows of a page in the walk over several pages (Spec).
MaxRows == 4
\* Rows of a page in the walk over one page of any rows (SpecRows).
MaxTableRows == 3
\* The longest amount text drawn from AmountChars.
MaxAmountLen == 3
\* Rows of a table passed to analyze_insider_opportunities.
MaxTrades == 3
\* Tickers passed to get_multiple_stocks_history.
MaxTickers == 2
\* Links of the pagination list passed to get_pagination_info.
MaxLinks == 2

(***************************************************************************)
(* Program constants.                                                      *)
(***************************************************************************)
RETRIES == 3
RETRY_DELAY == 2
PAGE_DELAY == 1
MIN_CELLS == 6
\* score.py line 82: unique_buyers >= 2.
MIN_CLUSTER_BUYERS == 2
\* score.py line 85: timedelta(days=30).
RECENT_DAYS == 30
\* score.py lines 237, 244, 251, 258: head(10).
HEAD_ROWS == 10
\* score.py line 239: unique_buyers * 2.
CLUSTER_WEIGHT == 2
\* score.py line 246: += 3.
EXECUTIVE_POINTS == 3
\* score.py line 253: += 2.
RECENT_POINTS == 2
\* score.py line 260: buy_ratio * 2.
RATIO_WEIGHT == 2
\* score.py line 290: head(5).
REPORT_ROWS == 5
\* Stands for the largest finite float (sys.float_info.max): int * float
\* converts the int to a float and raises OverflowError beyond it.
DBL_MAX == 100

None == <<>>
Some(v) == <<v>>

\* Python truthiness of an optional text (a sequence of tokens): None and the
\* empty string are false.
TruthyText(o) == o # None /\ o[1] # <<>>

\* Python truthiness of an optional number: None and 0 are false.
TruthyNum(o) == o # None /\ o[1] # 0

(***************************************************************************)
(* Rows of the results table, as tbody.find_all('tr') returns them.        *)
(***************************************************************************)
(***************************************************************************)
(* Lines 96-105: the headline amount.  A text is a sequence of characters; *)
(* a float is [mant, frac], standing for mant / 10^frac with no trailing   *)
(* zero in the fraction.                                                   *)
(***************************************************************************)
EURO == "EUR"       \* the character U+20AC
NBSP == "NBSP"      \* the character U+00A0, which \s matches

\* The characters the pattern [€\s] of line 101 matches.
Stripped == {EURO, " ", NBSP}

Digits == {"0", "1", "2", "3", "4", "5", "6", "7", "8", "9"}

DigitVal(c) ==
    CASE c = "0" -> 0 [] c = "1" -> 1 [] c = "2" -> 2 [] c = "3" -> 3
      [] c = "4" -> 4 [] c = "5" -> 5 [] c = "6" -> 6 [] c = "7" -> 7
      [] c = "8" -> 8 [] c = "9" -> 9

\* Line 101: re.sub(r'[€\s]', '', amount_str).replace(',', '.').
AmountClean(t) ==
    LET kept == SelectSeq(t, LAMBDA c : c \notin Stripped)
    IN  [k \in 1..Len(kept) |-> IF kept[k] = "," THEN "." ELSE kept[k]]

\* The position of the first point of a text, 0 when it has none.
RECURSIVE PointAt(_, _)
PointAt(t, k) ==
    IF k > Len(t) THEN 0 ELSE IF t[k] = "." THEN k ELSE PointAt(t, k + 1)

\* float() accepts, of the texts over the characters of the model, the
\* decimal numerals: digits with at most one point and at least one digit.
FloatAccepts(t) ==
    /\ \A k \in 1..Len(t) : t[k] \in Digits \cup {"."}
    /\ Cardinality({k \in 1..Len(t) : t[k] = "."}) <= 1
    /\ \E k \in 1..Len(t) : t[k] \in Digits

\* The number the first n digits of ds write.
RECURSIVE DigitsValueTo(_, _)
DigitsValueTo(ds, n) ==
    IF n = 0 THEN 0 ELSE DigitsValueTo(ds, n - 1) * 10 + DigitVal(ds[n])

DigitsValue(ds) == DigitsValueTo(ds, Len(ds))

RECURSIVE Normal(_, _)
Normal(m, f) ==
    IF f > 0 /\ m % 10 = 0 THEN Normal(m \div 10, f - 1)
    ELSE [mant |-> m, frac |-> f]

\* The float a decimal numeral reads as: its digits ds and the position p
\* of its point, each computed once.
FloatOf(t) ==
    CHOOSE x \in {Normal(DigitsValue(ds), IF p = 0 THEN 0 ELSE Len(t) - p) :
                      ds \in {SelectSeq(t, LAMBDA c : c # ".")},
                      p \in {PointAt(t, 1)}} : TRUE

\* Mutant of ParseAmount: the characters of the pattern are not removed.
ParseAmountUnstripped(t) ==
    LET c == [k \in 1..Len(t) |-> IF t[k] = "," THEN "." ELSE t[k]]
    IN  IF t # <<>> /\ FloatAccepts(c) THEN Some(FloatOf(c)) ELSE None

\* Lines 98-105: None for the empty text and for a text float() rejects;
\* c is amount_clean, computed once.
ParseAmount(t) ==
    CHOOSE amount \in {IF t # <<>> /\ FloatAccepts(c) THEN Some(FloatOf(c))
                       ELSE None : c \in {AmountClean(t)}} : TRUE

AbsentCell == [kind |-> "absent", val |-> 0]
BadCell == [kind |-> "bad", val |-> 0]
NumCell(n) == [kind |-> "num", val |-> n]

AUTHOR_PREFIX == "Auteur: "

SummaryRow(n, company, amount_str) ==
    [cls |-> FALSE, ncells |-> n, company |-> company,
     declaration_date |-> "01/07/2025", operation |-> "Acquisition",
     amount_str |-> amount_str,
     has_table |-> FALSE, author_text |-> None, operation_date |-> None,
     quantity |-> AbsentCell, price |-> AbsentCell, comment |-> None]

\* find_all('td') is recursive: a detail row counts the cell that holds the
\* nested table and the cells of the nested rows.
DetailRow(has_table, author_text, operation_date, quantity, price, comment) ==
    [cls |-> TRUE,
     ncells |-> IF has_table THEN MIN_CELLS ELSE 1,
     company |-> None,
     declaration_date |-> "", operation |-> "",
     amount_str |-> <<>>,
     has_table |-> has_table, author_text |-> author_text,
     operation_date |-> operation_date,
     quantity |-> quantity, price |-> price, comment |-> comment]

\* The kinds of row the model draws page contents from.
AmountText == <<"1", " ", "2", "3", "4", ",", "5", "6", " ", EURO>>
RowFoo == SummaryRow(MIN_CELLS, Some(<<"Foo">>), AmountText)
RowNoLink == SummaryRow(MIN_CELLS, None, <<"a", "b", "c">>)
RowShort == SummaryRow(MIN_CELLS - 1, Some(<<"Foo">>), <<>>)
RowBadAmount == SummaryRow(MIN_CELLS, Some(<<"Foo">>), <<"a", "b", "c">>)
DetFull ==
    DetailRow(TRUE, Some(<<AUTHOR_PREFIX, "Jean Dupont">>), Some("01/07/2025"),
              NumCell(3), NumCell(5), Some("note"))
DetZero ==
    DetailRow(TRUE, Some(<<"Jean Dupont">>), Some("hier"),
              NumCell(0), NumCell(5), Some(""))
DetBad ==
    DetailRow(TRUE, Some(<<AUTHOR_PREFIX, "Jean Dupont">>), None,
              BadCell, NumCell(5), None)
DetHuge ==
    DetailRow(TRUE, Some(<<"Jean Dupont">>), Some("01/07/2025"),
              NumCell(DBL_MAX + 1), NumCell(5), None)
DetBadPrice ==
    DetailRow(TRUE, Some(<<"Jean Dupont">>), Some("01/07/2025"),
              NumCell(3), BadCell, None)
DetNoTable == DetailRow(FALSE, None, None, AbsentCell, AbsentCell, None)

RowKinds ==
    {RowFoo, RowNoLink, RowShort, RowBadAmount,
     DetFull, DetZero, DetBad, DetBadPrice, DetHuge, DetNoTable}

SeqUpTo(S, n) == UNION {[1..k -> S] : k \in 0..n}

(***************************************************************************)
(* Page contents: what soup.find('table', id='tabQuotes'), .find('tbody')  *)
(* and .find_all('tr') make of a response body.                            *)
(***************************************************************************)
NoTableBody == [table |-> FALSE, tbody |-> FALSE, rows |-> <<>>]
NoTbodyBody == [table |-> TRUE, tbody |-> FALSE, rows |-> <<>>]
TableBody(rs) == [table |-> TRUE, tbody |-> TRUE, rows |-> rs]

\* The bodies a 2xx response carries in Spec: no table, no tbody, every table
\* of summary and detail rows, one with a short row, and two in which a
\* detail row makes the product of line 173 overflow.
PageBodies ==
    {NoTableBody, NoTbodyBody,
     TableBody(<<RowShort, DetFull, RowFoo, DetFull>>),
     TableBody(<<RowFoo, DetFull, RowFoo, DetHuge>>),
     TableBody(<<RowFoo, DetHuge, RowFoo, DetFull>>)}
        \cup {TableBody(rs) : rs \in SeqUpTo({RowFoo, DetFull}, MaxRows)}

\* The bodies a 2xx response carries in SpecFair and SpecPipeline: no table,
\* an empty table, a table whose rows take every branch of the row loop, and
\* one in which the product of line 173 overflows in the middle of the walk.
SampleBodies ==
    {NoTableBody, TableBody(<<>>),
     TableBody(<<RowShort, DetFull, RowFoo, DetFull>>),
     TableBody(<<RowFoo, DetHuge, RowFoo, DetFull>>)}

\* The bodies a 2xx response carries in SpecRows: every table of rows of
\* every kind.
TableBodies ==
    {NoTableBody} \cup {TableBody(rs) : rs \in SeqUpTo(RowKinds, MaxTableRows)}

\* The body of a response that raise_for_status() rejects: an error page,
\* which holds no results table.
ErrorBodies == {NoTableBody}

VARIABLES
    start_page,     \* argument
    end_page,       \* argument
    page,           \* loop variable of the page loop
    attempt,        \* loop variable of the retry loop
    response,       \* the local 'response': <<>> while unbound, else
                    \* <<[of_page, body]>>, the page it answers and its content
    rows,           \* tbody.find_all('tr') of the page being walked
    i,              \* row cursor (0-based, as in the code)
    trade_record,   \* the dict built by the current row iteration, or <<>>
    all_trades,     \* the output collection
    exc,            \* the exception in flight to the handler of line 200
    df,             \* the returned table
    pc,             \* position in the function
    waited,         \* time slept since the last GET was issued
    last_get,       \* the last GET issued: <<>> or
                    \* <<[page, url, ok, nth]>>, nth counting the GETs
                    \* issued in a row for that page
    requested,      \* the page indexes requested so far, in order of first
                    \* request
    gets            \* <<the GETs issued since the call>> in a run that
                    \* counts them, <<>> in a run that does not

\* The amount parse of lines 96-105, taken alone.
VARIABLES
    amount_str,     \* cells[4].get_text(strip=True)
    amount,         \* the local 'amount' once the parse is over
    amount_pc       \* "idle", "call" or "returned"

\* get_pagination_info (src/analysis/scrapping.py).
VARIABLES
    soup,           \* the argument: <<>> when the page has no ul of class
                    \* 'pagin', else <<the href of each of its links, <<>> for
                    \* a link without href>>
    max_page,       \* the local 'max_page'
    pg_k,           \* the links the loop of line 297 has handled
    pg_return,      \* <<>> or <<the value returned>>
    pg_pc           \* position in the function

\* analyze_insider_opportunities (src/analysis/score.py).
VARIABLES
    input_df,       \* the argument 'df': [columns, rows]
    df_clean,       \* the local 'df_clean', <<>> until line 26
    analyses,       \* the dict 'analyses': the names assigned so far and the
                    \* cluster_buying table
    an_exc,         \* the exception the call raised, or <<>>
    an_pc,          \* position in the function
    now,            \* what datetime.now() returned so far: <<>>, then
                    \* <<its value at line 85>>, then that and its value
                    \* at line 140
    report          \* <<>> or <<the numbered entries of the report that
                    \* create_analysis_report returned>>

\* The market-data operations (src/analysis/ticker.py).
VARIABLES
    tk_op,          \* the operation called
    tickers,        \* its ticker, or its list of tickers
    provider,       \* what the provider does for each ticker: it answers
                    \* with "data", with "empty" data, or raises an "error"
    results,        \* the local dict 'results' of get_multiple_stocks_history
    tk_k,           \* the tickers of the list handled so far
    tk_return,      \* <<>> or <<the value returned>>
    tk_exc,         \* <<>> or <<the exception that left the operation>>
    tk_pc           \* position in the operation

\* The consumers of the table: save_to_csv (src/analysis/scrapping.py) and
\* the chart functions (src/analysis/vizualisation.py).
VARIABLES
    csv_file,       \* <<>> or <<the rows of the file save_to_csv wrote>>
    insider_df,     \* <<>> or <<the rows of the table the chart functions
                    \* are called with>>
    figures         \* the figures made so far

scraper_vars ==
    <<start_page, end_page, page, attempt, response, rows, i, trade_record,
      all_trades, exc, df, pc, waited, last_get, requested, gets>>

amount_vars == <<amount_str, amount, amount_pc>>

pagination_vars == <<soup, max_page, pg_k, pg_return, pg_pc>>

analysis_vars ==
    <<input_df, df_clean, analyses, an_exc, an_pc, now, report>>

ticker_vars ==
    <<tk_op, tickers, provider, results, tk_k, tk_return, tk_exc, tk_pc>>

chart_vars == <<csv_file, insider_df, figures>>

\* What the scraper's steps leave alone.
consumer_vars ==
    <<amount_vars, pagination_vars, analysis_vars, ticker_vars, chart_vars>>

vars == <<scraper_vars, consumer_vars>>

AmountIdle == amount_str = <<>> /\ amount = None /\ amount_pc = "idle"

\* get_pagination_info is not called.
PaginationIdle ==
    /\ soup = None
    /\ max_page = 1
    /\ pg_k = 0
    /\ pg_return = None
    /\ pg_pc = "idle"

\* Line 37: analyses = {}.  The record holds the keys in the order of their
\* assignment and the tables the recommendations and the report read.
EmptyAnalyses ==
    [names |-> <<>>, cluster_buying |-> None, executive_buying |-> None,
     recent_activity |-> None, buy_sell_ratio |-> None,
     recommendations |-> None]

\* A table without columns, as pd.DataFrame() is.
EmptyTable == [columns |-> {}, rows |-> <<>>]

\* analyze_insider_opportunities is not called.
AnalysisIdle ==
    /\ input_df = EmptyTable
    /\ df_clean = None
    /\ analyses = EmptyAnalyses
    /\ an_exc = None
    /\ an_pc = "idle"
    /\ now = <<>>
    /\ report = None

\* The scraper is not run.
ScraperIdle ==
    /\ start_page = 1
    /\ end_page = 0
    /\ page = 1
    /\ attempt = 0
    /\ response = None
    /\ rows = <<>>
    /\ i = 0
    /\ trade_record = None
    /\ all_trades = <<>>
    /\ exc = None
    /\ df = None
    /\ pc = "idle"
    /\ waited = 0
    /\ last_get = None
    /\ requested = <<>>
    /\ gets = None

\* No market-data operation is called.
TickerIdle ==
    /\ tk_op = "none"
    /\ tickers = <<>>
    /\ provider = <<>>
    /\ results = <<>>
    /\ tk_k = 0
    /\ tk_return = None
    /\ tk_exc = None
    /\ tk_pc = "idle"

\* Nothing is saved, loaded or drawn.
ChartsIdle == csv_file = None /\ insider_df = None /\ figures = {}

\* The call of scrape_insider_trades with a page range.
InitCall ==
    /\ AmountIdle
    /\ PaginationIdle
    /\ AnalysisIdle
    /\ TickerIdle
    /\ ChartsIdle
    /\ start_page \in 1..MaxPage
    /\ end_page \in 0..MaxPage
    /\ page = start_page
    /\ attempt = 0
    /\ response = None
    /\ rows = <<>>
    /\ i = 0
    /\ trade_record = None
    /\ all_trades = <<>>
    /\ exc = None
    /\ df = None
    /\ pc = "for_page"
    /\ waited = 0
    /\ last_get = None
    /\ requested = <<>>

Init == InitCall /\ gets = None

\* The call in a run that counts its GETs.
InitFair == InitCall /\ gets = Some(0)

\* Lines 38-41: page 1 is requested without the page parameter.
Url(p) == IF p = 1 THEN None ELSE Some(p)

\* 'continue' of the page loop, and the fall-through at the end of its body:
\* the loop takes the next index.
NextPage ==
    /\ page' = page + 1
    /\ attempt' = 0
    /\ rows' = <<>>
    /\ i' = 0
    /\ trade_record' = None
    /\ pc' = "for_page"

\* Line 34: the loop takes a page of the range.
EnterPage ==
    /\ pc = "for_page"
    /\ page <= end_page
    /\ pc' = "get"
    /\ attempt' = 0
    /\ UNCHANGED <<consumer_vars, start_page, end_page, page, response, rows,
                   i, trade_record, all_trades, exc, df, waited, last_get,
                   requested, gets>>

\* What every GET leaves behind, whatever its outcome.
IssueGet(ok) ==
    /\ last_get' =
          Some([page |-> page, url |-> Url(page), ok |-> ok,
                nth |-> IF last_get # None /\ last_get[1].page = page
                        THEN last_get[1].nth + 1
                        ELSE 1])
    /\ gets' = IF gets = None THEN None ELSE Some(gets[1] + 1)
    /\ waited' = 0
    /\ requested' =
          IF requested # <<>> /\ requested[Len(requested)] = page
          THEN requested
          ELSE Append(requested, page)

\* Mutant of AfterFailedAttempt: the retry follows at once, without line 54.
AfterFailedAttemptNoSleep ==
    IF attempt = RETRIES - 1
    THEN pc' = "parse" /\ attempt' = 0
    ELSE pc' = "get" /\ attempt' = attempt + 1

\* Lines 50-54: the handler of a failed attempt.  On the last attempt the
\* 'continue' belongs to the retry loop, which is then over: control reaches
\* line 57.
AfterFailedAttempt ==
    IF attempt = RETRIES - 1
    THEN pc' = "parse" /\ attempt' = 0
    ELSE pc' = "retry_sleep" /\ attempt' = attempt

\* Lines 47-49: the request succeeds and the retry loop is left.
GetOk(b) ==
    /\ pc = "get"
    /\ response' = Some([of_page |-> page, body |-> b])
    /\ IssueGet(TRUE)
    /\ pc' = "parse"
    /\ attempt' = 0
    /\ UNCHANGED <<consumer_vars, start_page, end_page, page, rows, i,
                   trade_record, all_trades, exc, df>>

\* Lines 47-48: requests.get returns and raise_for_status raises: 'response'
\* is bound to the error response.
GetHttpError ==
    /\ pc = "get"
    /\ \E b \in ErrorBodies : response' = Some([of_page |-> page, body |-> b])
    /\ IssueGet(FALSE)
    /\ AfterFailedAttempt
    /\ UNCHANGED <<consumer_vars, start_page, end_page, page, rows, i,
                   trade_record, all_trades, exc, df>>

\* Line 47: requests.get itself raises (timeout, connection error): 'response'
\* keeps whatever it held.
GetTransportError ==
    /\ pc = "get"
    /\ IssueGet(FALSE)
    /\ AfterFailedAttempt
    /\ UNCHANGED <<consumer_vars, start_page, end_page, page, response, rows,
                   i, trade_record, all_trades, exc, df>>

\* Mutant of RetrySleep: the retry does not count as an attempt.
RetrySleepSameAttempt ==
    /\ pc = "retry_sleep"
    /\ waited' = waited + RETRY_DELAY
    /\ attempt' = attempt
    /\ pc' = "get"
    /\ UNCHANGED <<consumer_vars, start_page, end_page, page, response, rows,
                   i, trade_record, all_trades, exc, df, last_get, requested,
                   gets>>

\* Line 54, then the next iteration of line 45.
RetrySleep ==
    /\ pc = "retry_sleep"
    /\ waited' = waited + RETRY_DELAY
    /\ attempt' = attempt + 1
    /\ pc' = "get"
    /\ UNCHANGED <<consumer_vars, start_page, end_page, page, response, rows,
                   i, trade_record, all_trades, exc, df, last_get, requested,
                   gets>>

\* Lines 57-71: the content of 'response' is parsed.  Reading the unbound
\* local raises UnboundLocalError, which the handler of line 200 receives.
ParseUnbound ==
    /\ pc = "parse"
    /\ response = None
    /\ exc' = Some("UnboundLocalError")
    /\ pc' = "except"
    /\ UNCHANGED <<consumer_vars, start_page, end_page, page, attempt,
                   response, rows, i, trade_record, all_trades, df, waited,
                   last_get, requested, gets>>

\* Mutant of ParseNoTable: the missing table is dereferenced and the error is
\* one the handler of line 200 lets through.
ParseNoTableAsError ==
    /\ pc = "parse"
    /\ response # None
    /\ ~(response[1].body.table /\ response[1].body.tbody)
    /\ exc' = Some("AttributeError")
    /\ pc' = "except"
    /\ UNCHANGED <<consumer_vars, start_page, end_page, page, attempt,
                   response, rows, i, trade_record, all_trades, df, waited,
                   last_get, requested, gets>>

\* Lines 60-69: no results table, or no tbody in it: 'continue'.
ParseNoTable ==
    /\ pc = "parse"
    /\ response # None
    /\ ~(response[1].body.table /\ response[1].body.tbody)
    /\ NextPage
    /\ UNCHANGED <<consumer_vars, start_page, end_page, response, all_trades,
                   exc, df, waited, last_get, requested, gets>>

\* Lines 71-73: the rows of the table are listed and the cursor is set.
ParseTable ==
    /\ pc = "parse"
    /\ response # None
    /\ response[1].body.table /\ response[1].body.tbody
    /\ rows' = response[1].body.rows
    /\ i' = 0
    /\ pc' = "rows"
    /\ UNCHANGED <<consumer_vars, start_page, end_page, page, attempt,
                   response, trade_record, all_trades, exc, df, waited,
                   last_get, requested, gets>>

\* rows[k] of the code (0-based).
RowAt(k) == rows[k + 1]

\* Line 78: 'dtlinsider' in row.get('class', []).
IsDetailRow(r) == r.cls

\* Mutant of IsShortRow: the threshold is one cell too low.
IsShortRowOffByOne(r) == r.ncells < MIN_CELLS - 1

\* Line 84: len(cells) < 6.
IsShortRow(r) == r.ncells < MIN_CELLS

\* Line 109: the next row exists and carries the detail class.
HasDetail(rs, k) == k + 1 < Len(rs) /\ IsDetailRow(rs[k + 2])

\* Lines 78-80: a row with the detail class is passed over.
SkipDetailRow ==
    /\ pc = "rows"
    /\ i < Len(rows)
    /\ IsDetailRow(RowAt(i))
    /\ i' = i + 1
    /\ UNCHANGED <<consumer_vars, start_page, end_page, page, attempt,
                   response, rows, trade_record, all_trades, exc, df, pc,
                   waited, last_get, requested, gets>>

\* Lines 83-86: a row with fewer than 6 cells is passed over.
SkipShortRow ==
    /\ pc = "rows"
    /\ i < Len(rows)
    /\ ~IsDetailRow(RowAt(i))
    /\ IsShortRow(RowAt(i))
    /\ i' = i + 1
    /\ UNCHANGED <<consumer_vars, start_page, end_page, page, attempt,
                   response, rows, trade_record, all_trades, exc, df, pc,
                   waited, last_get, requested, gets>>

\* Mutant of CellValue: a text that does not parse is read as 0.
CellValueBadAsZero(c) == IF c.kind = "absent" THEN None ELSE Some(c.val)

\* Lines 142-145, 151-154: the number a cell's text parses to, None when the
\* cell is absent or int()/float() raises ValueError.
CellValue(c) == IF c.kind = "num" THEN Some(c.val) ELSE None

\* Line 122: the text with every occurrence of the prefix removed when it
\* starts with the prefix, else the text.
StripAuthor(t) ==
    IF t # <<>> /\ t[1] = AUTHOR_PREFIX
    THEN SelectSeq(t, LAMBDA x : x # AUTHOR_PREFIX)
    ELSE t

\* Line 108: detail_info = {} read through .get().
EmptyDetail ==
    [author |-> None, operation_date |-> None, quantity |-> None,
     price_eur |-> None, comments |-> None]

\* Lines 110-163: detail_info as filled from a detail row.
DetailInfo(d) ==
    IF ~d.has_table
    THEN EmptyDetail
    ELSE [author |-> IF d.author_text = None THEN None
                     ELSE Some(StripAuthor(d.author_text[1])),
          operation_date |-> d.operation_date,
          quantity |-> CellValue(d.quantity),
          price_eur |-> CellValue(d.price),
          comments |-> IF d.comment # None /\ d.comment[1] # "" THEN d.comment
                       ELSE None]

\* Line 172: the condition under which the product is computed.
HasTotal(info) == TruthyNum(info.quantity) /\ TruthyNum(info.price_eur)

\* Line 173: int * float raises OverflowError when the int exceeds the floats.
TotalOverflows(info) == HasTotal(info) /\ info.quantity[1] > DBL_MAX

\* Lines 171-173.
TotalValue(info) ==
    IF HasTotal(info) THEN Some(info.quantity[1] * info.price_eur[1]) ELSE None

\* Lines 176-191.  src_row is not a field of the code's dict: it records the
\* index of the summary row the record was built from, for the order of the
\* output to be observable.  company_href, instrument and scraped_at are
\* copied or stamped like declaration_date and are left out.
TradeRecord(r, info, p, k) ==
    [company |-> r.company,
     declaration_date |-> r.declaration_date,
     operation |-> r.operation,
     amount_from_main |-> ParseAmount(r.amount_str),
     author |-> info.author,
     operation_date |-> info.operation_date,
     quantity |-> info.quantity,
     price_eur |-> info.price_eur,
     total_value_eur |-> TotalValue(info),
     comments |-> info.comments,
     scraped_page |-> p,
     src_row |-> k]

\* Mutant of Retained: the author is not looked at.
RetainedCompanyOnly(rec) == TruthyText(rec.company)

\* Mutant of Retained: one of the two is enough.
RetainedCompanyOrAuthor(rec) ==
    TruthyText(rec.company) \/ TruthyText(rec.author)

\* Line 194: 'company and detail_info.get('author')'.
Retained(rec) == TruthyText(rec.company) /\ TruthyText(rec.author)

\* Mutant of AddTrade: the record is put in front (insert(0, ...)).
AddTradeInFront(trades, rec) == <<rec>> \o trades

\* Line 195: all_trades.append(trade_record).
AddTrade(trades, rec) == Append(trades, rec)

\* Mutant of CursorAfter: the cursor always skips two rows.
CursorAfterSkipsTwo(rs, k) == k + 2

\* Lines 165-168: where the cursor goes after a summary row.
CursorAfter(rs, k) == IF HasDetail(rs, k) THEN k + 2 ELSE k + 1

\* Lines 88-195: a summary row, with its detail row when one follows, makes
\* one record, which is appended when it has a company and an author.
ExtractRecord ==
    /\ pc = "rows"
    /\ i < Len(rows)
    /\ ~IsDetailRow(RowAt(i))
    /\ ~IsShortRow(RowAt(i))
    \* detail_info and trade_record, each computed once
    /\ \E info \in {IF HasDetail(rows, i) THEN DetailInfo(RowAt(i + 1))
                    ELSE EmptyDetail} :
       \E rec \in {TradeRecord(RowAt(i), info, page, i)} :
           /\ i' = CursorAfter(rows, i)
           /\ IF TotalOverflows(info)
              THEN /\ exc' = Some("OverflowError")
                   /\ pc' = "except"
                   /\ UNCHANGED <<trade_record, all_trades>>
              ELSE /\ trade_record' = Some(rec)
                   /\ all_trades' = IF Retained(rec) THEN AddTrade(all_trades, rec)
                                    ELSE all_trades
                   /\ UNCHANGED <<exc, pc>>
    /\ UNCHANGED <<consumer_vars, start_page, end_page, page, attempt,
                   response, rows, df, waited, last_get, requested, gets>>

\* Lines 74 and 198: the rows are exhausted; the delay before the next page.
PageSleep ==
    /\ pc = "rows"
    /\ i >= Len(rows)
    /\ waited' = waited + PAGE_DELAY
    /\ NextPage
    /\ UNCHANGED <<consumer_vars, start_page, end_page, response, all_trades,
                   exc, df, last_get, requested, gets>>

\* Mutant of Handles: the clause names requests.RequestException only.
HandlesRequestOnly(e) == e = "RequestException"

\* Line 200: 'except Exception' receives every exception the body raises.
Handles(e) == e \in {"UnboundLocalError", "OverflowError", "RequestException"}

\* Lines 200-202: the diagnostic is printed and the loop goes on; an
\* exception the clause does not name leaves the function.
HandlePageError ==
    /\ pc = "except"
    /\ IF Handles(exc[1])
       THEN /\ NextPage
            /\ exc' = None
       ELSE /\ pc' = "raised"
            /\ UNCHANGED <<page, attempt, rows, i, trade_record, exc>>
    /\ UNCHANGED <<consumer_vars, start_page, end_page, response, all_trades,
                   df, waited, last_get, requested, gets>>

\* Lines 210, 217: to_datetime(format='%d/%m/%Y', errors='coerce') gives
\* <<year, month, day>>, and NaT (None) for a text that is no such date.
ToDatetime(o) ==
    IF o = None THEN None
    ELSE IF o[1] = "01/07/2025" THEN Some(<<2025, 7, 1>>)
    ELSE None

\* Lines 205-219: the table, with the two parsed date columns.
DataFrame(trades) ==
    [k \in 1..Len(trades) |->
        [record |-> trades[k],
         operation_date_parsed |-> ToDatetime(trades[k].operation_date),
         declaration_date_parsed |-> ToDatetime(Some(trades[k].declaration_date))]]

\* Lines 34 and 204-223: the range is exhausted and the table is returned.
ReturnTable ==
    /\ pc = "for_page"
    /\ page > end_page
    /\ df' = Some(DataFrame(all_trades))
    /\ pc' = "done"
    /\ UNCHANGED <<consumer_vars, start_page, end_page, page, attempt,
                   response, rows, i, trade_record, all_trades, exc, waited,
                   last_get, requested, gets>>

\* Every step but the successful GET, whose content the two specifications
\* draw from different sets.
Step ==
    \/ EnterPage
    \/ GetHttpError
    \/ GetTransportError
    \/ RetrySleep
    \/ ParseUnbound
    \/ ParseNoTable
    \/ ParseTable
    \/ SkipDetailRow
    \/ SkipShortRow
    \/ ExtractRecord
    \/ PageSleep
    \/ HandlePageError
    \/ ReturnTable

\* A successful GET whose content is one of PageBodies.  The guard of GetOk
\* is repeated for the contents to be listed only where a GET is due.
GetOkPage == pc = "get" /\ \E b \in PageBodies : GetOk(b)

Next == GetOkPage \/ Step

\* scrape_insider_trades over every page range within 1..MaxPage.
Spec == Init /\ [][Next]_vars

\* A successful GET whose content is one of SampleBodies.
GetOkSample == pc = "get" /\ \E b \in SampleBodies : GetOk(b)

NextFair == GetOkSample \/ Step

\* scrape_insider_trades as one sequential thread: whenever a step is due
\* it is taken, requests.get (timeout=30) and time.sleep return.
SpecFair == InitFair /\ [][NextFair]_vars /\ WF_vars(NextFair)

InitRows == Init /\ end_page = start_page

\* A successful GET whose content is one of TableBodies.
GetOkTable == pc = "get" /\ \E b \in TableBodies : GetOk(b)

NextRows == GetOkTable \/ Step

\* scrape_insider_trades over one page, whose table holds rows of every kind.
SpecRows == InitRows /\ [][NextRows]_vars

(***************************************************************************)
(* The amount parse of lines 96-105 over every text of a bounded length.   *)
(***************************************************************************)
AmountChars == {"0", "1", "2", ",", ".", " ", NBSP, EURO, "a"}

\* get_text(strip=True) gives a text that neither begins nor ends with a
\* whitespace character.
IsStripped(t) ==
    t # <<>> => t[1] \notin {" ", NBSP} /\ t[Len(t)] \notin {" ", NBSP}

AmountTexts ==
    {t \in SeqUpTo(AmountChars, MaxAmountLen) : IsStripped(t)}
        \cup {AmountText, <<"a", "b", "c">>}

InitAmount ==
    /\ ScraperIdle
    /\ PaginationIdle
    /\ AnalysisIdle
    /\ TickerIdle
    /\ ChartsIdle
    /\ amount_str \in AmountTexts
    /\ amount = None
    /\ amount_pc = "call"

\* Lines 98-105.
ParseAmountStep ==
    /\ amount_pc = "call"
    /\ amount' = ParseAmount(amount_str)
    /\ amount_pc' = "returned"
    /\ UNCHANGED <<scraper_vars, analysis_vars, ticker_vars, chart_vars,
                   pagination_vars, amount_str>>

NextAmount == ParseAmountStep

SpecAmount == InitAmount /\ [][NextAmount]_vars

(***************************************************************************)
(* get_pagination_info (src/analysis/scrapping.py lines 278-306).  A href  *)
(* is a sequence of characters.                                            *)
(***************************************************************************)
\* Line 299: 'page='.
PAGE_PARAM == <<"p", "a", "g", "e", "=">>

\* The start of the first occurrence of word in t at or after position k, 0
\* when there is none.
RECURSIVE FirstAt(_, _, _)
FirstAt(t, word, k) ==
    IF k + Len(word) - 1 > Len(t) THEN 0
    ELSE IF SubSeq(t, k, k + Len(word) - 1) = word THEN k
    ELSE FirstAt(t, word, k + 1)

\* Line 301: href.split('page=')[1], for a href that holds 'page=': what
\* lies between its first occurrence and the next one, or the end.
SplitSecond(href) ==
    LET p == FirstAt(href, PAGE_PARAM, 1)
        rest == SubSeq(href, p + Len(PAGE_PARAM), Len(href))
        q == FirstAt(rest, PAGE_PARAM, 1)
    IN  IF q = 0 THEN rest ELSE SubSeq(rest, 1, q - 1)

\* str.strip() of the white space int() skips at both ends.
RECURSIVE StripSpace(_)
StripSpace(t) ==
    IF t = <<>> THEN t
    ELSE IF t[1] \in {" ", NBSP} THEN StripSpace(Tail(t))
    ELSE IF t[Len(t)] \in {" ", NBSP}
         THEN StripSpace(SubSeq(t, 1, Len(t) - 1))
    ELSE t

\* The digits and underscores of an integer literal, without its sign.
Unsigned(t) ==
    LET b == StripSpace(t)
    IN  IF b # <<>> /\ b[1] \in {"+", "-"} THEN Tail(b) ELSE b

\* int() accepts an optional sign and digits, with single underscores
\* between digits, and raises ValueError for any other text.
IntAccepts(t) ==
    LET u == Unsigned(t)
    IN  /\ u # <<>>
        /\ \A k \in 1..Len(u) : u[k] \in Digits \cup {"_"}
        /\ u[1] \in Digits /\ u[Len(u)] \in Digits
        /\ \A k \in 1..(Len(u) - 1) : ~(u[k] = "_" /\ u[k + 1] = "_")

IntOf(t) ==
    LET b == StripSpace(t)
        v == DigitsValue(SelectSeq(Unsigned(t), LAMBDA c : c \in Digits))
    IN  IF b[1] = "-" THEN 0 - v ELSE v

\* Line 298: link.get('href', '').
Href(link) == IF link = None THEN <<>> ELSE link[1]

\* Mutant of Max: the second argument.
MaxSecond(a, b) == b

\* Line 302: max(max_page, page_num).
Max(a, b) == IF b > a THEN b ELSE a

\* Lines 288-296: the list and its links are looked for.
FindPagination ==
    /\ pg_pc = "call"
    /\ IF soup = None \/ soup[1] = <<>>
       THEN /\ pg_return' = Some(1)
            /\ pg_pc' = "returned"
       ELSE /\ pg_return' = pg_return
            /\ pg_pc' = "links"
    /\ max_page' = 1
    /\ UNCHANGED <<scraper_vars, amount_vars, analysis_vars, ticker_vars,
                   chart_vars, soup, pg_k>>

\* Lines 297-304: one link.  The bare except of line 303 takes the
\* ValueError of int() and the loop goes on.
HandleLink ==
    /\ pg_pc = "links"
    /\ pg_k < Len(soup[1])
    /\ LET href == Href(soup[1][pg_k + 1])
       IN  max_page' =
              IF /\ FirstAt(href, PAGE_PARAM, 1) # 0
                 /\ IntAccepts(SplitSecond(href))
              THEN Max(max_page, IntOf(SplitSecond(href)))
              ELSE max_page
    /\ pg_k' = pg_k + 1
    /\ UNCHANGED <<scraper_vars, amount_vars, analysis_vars, ticker_vars,
                   chart_vars, soup, pg_return, pg_pc>>

\* Line 306.
ReturnMaxPage ==
    /\ pg_pc = "links"
    /\ pg_k >= Len(soup[1])
    /\ pg_return' = Some(max_page)
    /\ pg_pc' = "returned"
    /\ UNCHANGED <<scraper_vars, amount_vars, analysis_vars, ticker_vars,
                   chart_vars, soup, max_page, pg_k>>

\* '?page='.
PageQuery == <<"?">> \o PAGE_PARAM

\* The links of the model: without href, without the parameter, with a page
\* number (of one digit, of two, with white space, with an underscore,
\* negative, followed by a second 'page='), and with a parameter that is no
\* number (empty, a letter, a number followed by another parameter).
Links ==
    {None,
     Some(<<"/", "m">>),
     Some(PageQuery \o <<"2">>),
     Some(PageQuery \o <<"3">>),
     Some(PageQuery \o <<"1", "2">>),
     Some(PageQuery \o <<" ", "4">>),
     Some(PageQuery \o <<"1", "_", "0">>),
     Some(PageQuery \o <<"-", "3">>),
     Some(PageQuery \o <<"5">> \o PAGE_PARAM \o <<"9">>),
     Some(PageQuery),
     Some(PageQuery \o <<"x">>),
     Some(PageQuery \o <<"7", "&", "s", "=", "1">>)}

\* The pages get_pagination_info is called with: no list, and a list of up
\* to MaxLinks links.
Soups == {None} \cup {Some(links) : links \in SeqUpTo(Links, MaxLinks)}

InitPagination ==
    /\ ScraperIdle
    /\ AmountIdle
    /\ AnalysisIdle
    /\ TickerIdle
    /\ ChartsIdle
    /\ soup \in Soups
    /\ max_page = 1
    /\ pg_k = 0
    /\ pg_return = None
    /\ pg_pc = "call"

NextPagination == FindPagination \/ HandleLink \/ ReturnMaxPage

\* get_pagination_info on every page of Soups.
SpecPagination == InitPagination /\ [][NextPagination]_vars

(***************************************************************************)
(* analyze_insider_opportunities (src/analysis/score.py).  A table is      *)
(* [columns, rows]; a row holds a cell for every column the model knows,   *)
(* <<>> (NaN, None, NaT) where the table has no such column.  Numbers are  *)
(* integers and a mean is the pair of its sum and its count.  The column   *)
(* operation_date_parsed, where a table has it, holds datetimes, as in the *)
(* table the scraper returns.                                              *)
(***************************************************************************)
\* Line 20.
REQUIRED_COLS ==
    <<"company", "operation", "author", "quantity", "price_eur",
      "total_value_eur">>

Range(s) == {s[k] : k \in 1..Len(s)}

\* Mutant of MissingCols: only the first absent column is named.
MissingColsFirstOnly(columns) ==
    LET absent == SelectSeq(REQUIRED_COLS, LAMBDA c : c \notin columns)
    IN  IF absent = <<>> THEN <<>> ELSE <<absent[1]>>

\* Line 21: [col for col in required_cols if col not in df.columns].
MissingCols(columns) == SelectSeq(REQUIRED_COLS, LAMBDA c : c \notin columns)

\* The characters of the operation texts and author texts of the model.
Chars(text) ==
    CASE text = "Acquisition" ->
            <<"A", "c", "q", "u", "i", "s", "i", "t", "i", "o", "n">>
      [] text = "Achat" -> <<"A", "c", "h", "a", "t">>
      [] text = "Achat-Vente" ->
            <<"A", "c", "h", "a", "t", "-", "V", "e", "n", "t", "e">>
      [] text = "Jean Dupont" ->
            <<"J", "e", "a", "n", " ", "D", "u", "p", "o", "n", "t">>
      [] text = "Anne Martin, PDG" ->
            <<"A", "n", "n", "e", " ", "M", "a", "r", "t", "i", "n", ",", " ",
              "P", "D", "G">>
      [] text = "Souscription" ->
            <<"S", "o", "u", "s", "c", "r", "i", "p", "t", "i", "o", "n">>
      [] text = "Cession" -> <<"C", "e", "s", "s", "i", "o", "n">>
      [] text = "Nantissement" ->
            <<"N", "a", "n", "t", "i", "s", "s", "e", "m", "e", "n", "t">>
      [] text = "" -> <<>>

\* str.lower() on the capitals the texts of the model hold.
LowerChar(c) ==
    CASE c = "A" -> "a" [] c = "C" -> "c" [] c = "N" -> "n" [] c = "S" -> "s"
      [] c = "D" -> "d" [] c = "G" -> "g" [] c = "J" -> "j" [] c = "M" -> "m"
      [] c = "P" -> "p" [] c = "V" -> "v"
      [] OTHER -> c

\* Line 29: .str.lower().
Lower(t) == [k \in 1..Len(t) |-> LowerChar(t[k])]

\* re.search of a literal word in a text.
Contains(t, word) ==
    \E k \in 0..(Len(t) - Len(word)) : SubSeq(t, k + 1, k + Len(word)) = word

\* Line 30: 'acquisition|achat|souscription'.
BUY_WORDS ==
    {<<"a", "c", "q", "u", "i", "s", "i", "t", "i", "o", "n">>,
     <<"a", "c", "h", "a", "t">>,
     <<"s", "o", "u", "s", "c", "r", "i", "p", "t", "i", "o", "n">>}

\* Line 31: 'cession|vente'.
SELL_WORDS ==
    {<<"c", "e", "s", "s", "i", "o", "n">>, <<"v", "e", "n", "t", "e">>}

\* Lines 29-31 on one operation text.
IsBuy(operation) == \E w \in BUY_WORDS : Contains(Lower(Chars(operation)), w)

IsSell(operation) == \E w \in SELL_WORDS : Contains(Lower(Chars(operation)), w)

\* The character U+00E9.
E_ACUTE == "e_acute"

\* Lines 111-114.
EXECUTIVE_KEYWORDS ==
    {<<"p", "d", "g">>,
     <<"c", "e", "o">>,
     <<"p", "r", "e", "s", "i", "d", "e", "n", "t">>,
     <<"d", "i", "r", "e", "c", "t", "e", "u", "r", " ",
       "g", "e", "n", "e", "r", "a", "l">>,
     <<"d", "i", "r", "e", "c", "t", "e", "u", "r", " ",
       "g", E_ACUTE, "n", E_ACUTE, "r", "a", "l">>,
     <<"a", "d", "m", "i", "n", "i", "s", "t", "r", "a", "t", "e", "u", "r">>,
     <<"c", "o", "n", "s", "e", "i", "l">>,
     <<"g", "e", "r", "a", "n", "t">>,
     <<"g", E_ACUTE, "r", "a", "n", "t">>}

\* The characters of an author cell, whose text the scraper keeps as a
\* sequence of pieces.
RECURSIVE AuthorChars(_)
AuthorChars(pieces) ==
    IF pieces = <<>> THEN <<>>
    ELSE Chars(pieces[1]) \o AuthorChars(Tail(pieces))

\* Lines 119-121: author.str.lower().str.contains(keyword, na=False) for one
\* of the keywords.
IsExecutive(author) ==
    /\ author # None
    /\ \E w \in EXECUTIVE_KEYWORDS :
          Contains(Lower(AuthorChars(author[1])), w)

\* Line 26: dropna(subset=['company', 'operation', 'quantity', 'price_eur']).
Complete(r) ==
    /\ r.company # None
    /\ r.operation # None
    /\ r.quantity # None
    /\ r.price_eur # None

\* Lines 26-35: df_clean, a new table.
Clean(t) ==
    LET parse == /\ "operation_date_parsed" \notin t.columns
                 /\ "operation_date" \in t.columns
        kept == SelectSeq(t.rows, Complete)
    IN  [columns |->
            t.columns \cup {"operation_clean", "is_buy", "is_sell"}
                      \cup (IF parse THEN {"operation_date_parsed"} ELSE {}),
         rows |->
            [k \in 1..Len(kept) |->
                [company |-> kept[k].company,
                 operation |-> kept[k].operation,
                 author |-> kept[k].author,
                 quantity |-> kept[k].quantity,
                 price_eur |-> kept[k].price_eur,
                 total_value_eur |-> kept[k].total_value_eur,
                 operation_date |-> kept[k].operation_date,
                 operation_date_parsed |->
                    IF parse THEN ToDatetime(kept[k].operation_date)
                    ELSE kept[k].operation_date_parsed,
                 operation_clean |-> Lower(Chars(kept[k].operation[1])),
                 is_buy |-> IsBuy(kept[k].operation[1]),
                 is_sell |-> IsSell(kept[k].operation[1])]]]

\* date.toordinal(): the days from 0001-01-01, counted from 1.
IsLeap(y) == (y % 4 = 0 /\ y % 100 # 0) \/ y % 400 = 0

DaysBeforeMonth == <<0, 31, 59, 90, 120, 151, 181, 212, 243, 273, 304, 334>>

DayNumber(d) ==
    LET y == d[1] - 1
    IN  365 * y + (y \div 4) - (y \div 100) + (y \div 400)
          + DaysBeforeMonth[d[2]]
          + (IF d[2] > 2 /\ IsLeap(d[1]) THEN 1 ELSE 0)
          + d[3]

\* Lines 85-86: a datetime of the column (midnight) >= datetime.now() -
\* timedelta(days=30); a comparison with NaT is False.
Recent(last_trade, t) ==
    /\ last_trade # None
    /\ \/ DayNumber(last_trade[1]) > DayNumber(t.date) - RECENT_DAYS
       \/ /\ DayNumber(last_trade[1]) = DayNumber(t.date) - RECENT_DAYS
          /\ t.secs = 0

\* The values of a column that are not null.
NotNull(rs, col) ==
    LET filled == SelectSeq(rs, LAMBDA r : r[col] # None)
    IN  [k \in 1..Len(filled) |-> filled[k][col][1]]

RECURSIVE Sum(_)
Sum(s) == IF s = <<>> THEN 0 ELSE s[1] + Sum(Tail(s))

\* min and max of a datetime column skip NaT and give NaT when nothing is left.
MinDate(ds) ==
    IF ds = <<>> THEN None
    ELSE Some(CHOOSE d \in Range(ds) :
                 \A e \in Range(ds) : DayNumber(d) <= DayNumber(e))

MaxDate(ds) ==
    IF ds = <<>> THEN None
    ELSE Some(CHOOSE d \in Range(ds) :
                 \A e \in Range(ds) : DayNumber(d) >= DayNumber(e))

\* The company names of the model, in ascending order.
COMPANIES ==
    << <<"Bar">>, <<"Co01">>, <<"Co02">>, <<"Co03">>, <<"Co04">>, <<"Co05">>,
       <<"Co06">>, <<"Co07">>, <<"Co08">>, <<"Co09">>, <<"Co10">>, <<"Co11">>,
       <<"Foo">> >>

\* groupby('company') puts its keys in ascending order.
GroupKeys(rs) ==
    SelectSeq(COMPANIES,
              LAMBDA c : \E k \in 1..Len(rs) : rs[k].company = Some(c))

\* Line 73: 'author': 'nunique', which leaves out the null authors.
UniqueBuyers(group) == Cardinality(Range(NotNull(group, "author")))

\* Lines 72-79: one row of cluster_stats.
ClusterStats(rs, c) ==
    LET group == SelectSeq(rs, LAMBDA r : r.company = Some(c))
        values == NotNull(group, "total_value_eur")
        dates == NotNull(group, "operation_date_parsed")
    IN  [company |-> Some(c),
         unique_buyers |-> UniqueBuyers(group),
         total_value |-> Sum(values),
         avg_value |-> IF values = <<>> THEN None
                       ELSE Some([sum |-> Sum(values), count |-> Len(values)]),
         num_trades |-> Len(values),
         first_trade |-> MinDate(dates),
         last_trade |-> MaxDate(dates)]

\* sort_values(col, ascending=False) on a table this small: the rows in
\* non-increasing order of the column, equal values in their former order.
RECURSIVE SortDescending(_, _)
SortDescending(rs, col) ==
    IF rs = <<>> THEN <<>>
    ELSE LET rest == SortDescending(Tail(rs), col)
             before == SelectSeq(rest, LAMBDA r : r[col] > rs[1][col])
             after == SelectSeq(rest, LAMBDA r : r[col] <= rs[1][col])
         IN  before \o <<rs[1]>> \o after

\* Lines 69-88: find_cluster_buying on a table that has the columns it reads.
FindClusterBuyingTable(t, at) ==
    LET buys == SelectSeq(t.rows, LAMBDA r : r.is_buy)
        keys == GroupKeys(buys)
        cluster_stats == [k \in 1..Len(keys) |-> ClusterStats(buys, keys[k])]
        clusters ==
            SortDescending(
                SelectSeq(cluster_stats,
                          LAMBDA r : r.unique_buyers >= MIN_CLUSTER_BUYERS),
                "total_value")
    IN  [k \in 1..Len(clusters) |->
            [company |-> clusters[k].company,
             unique_buyers |-> clusters[k].unique_buyers,
             total_value |-> clusters[k].total_value,
             avg_value |-> clusters[k].avg_value,
             num_trades |-> clusters[k].num_trades,
             first_trade |-> clusters[k].first_trade,
             last_trade |-> clusters[k].last_trade,
             recent_activity |-> Recent(clusters[k].last_trade, at)]]

\* datetime.now() 19 days after the date of the trades, 30 days after it at
\* midnight, and 30 days after it at noon.
NowValues ==
    {[date |-> <<2025, 7, 20>>, secs |-> 0],
     [date |-> <<2025, 7, 31>>, secs |-> 0],
     [date |-> <<2025, 7, 31>>, secs |-> 43200]}

\* Lines 20-23: the required columns are looked for.
CheckColumns ==
    /\ an_pc = "call"
    /\ IF MissingCols(input_df.columns) # <<>>
       THEN /\ an_exc' = Some([type |-> "ValueError",
                               names |-> MissingCols(input_df.columns)])
            /\ an_pc' = "raised"
       ELSE /\ an_exc' = an_exc
            /\ an_pc' = "clean"
    /\ UNCHANGED <<scraper_vars, amount_vars, pagination_vars, ticker_vars,
                   chart_vars, input_df, df_clean, analyses, now, report>>

\* Lines 26-37.
CleanData ==
    /\ an_pc = "clean"
    /\ df_clean' = Some(Clean(input_df))
    /\ analyses' = EmptyAnalyses
    /\ an_pc' = "cluster"
    /\ UNCHANGED <<scraper_vars, amount_vars, pagination_vars, ticker_vars,
                   chart_vars, input_df, an_exc, now, report>>

\* Line 40: find_cluster_buying.  The aggregation of lines 72-76 raises
\* KeyError for a column the table does not have.
FindClusterBuying ==
    /\ an_pc = "cluster"
    /\ IF "operation_date_parsed" \notin df_clean[1].columns
       THEN /\ an_exc' = Some([type |-> "KeyError",
                               names |-> <<"operation_date_parsed">>])
            /\ an_pc' = "raised"
            /\ analyses' = analyses
            /\ now' = now
       ELSE /\ \E t \in NowValues :
                  /\ now' = Some(t)
                  /\ analyses' =
                        [analyses EXCEPT
                            !.names = <<"cluster_buying">>,
                            !.cluster_buying =
                                Some(FindClusterBuyingTable(df_clean[1], t))]
            /\ an_pc' = "later"
            /\ an_exc' = an_exc
    /\ UNCHANGED <<scraper_vars, amount_vars, pagination_vars, ticker_vars,
                   chart_vars, input_df, df_clean, report>>

\* Lines 116-135: find_executive_buying, one row for each company with a
\* buy by an author whose text holds an executive keyword.
ExecutiveSummary(rs, c) ==
    LET group == SelectSeq(rs, LAMBDA r : r.company = Some(c))
    IN  [company |-> Some(c),
         total_exec_value |-> Sum(NotNull(group, "total_value_eur")),
         num_exec_trades |-> Len(NotNull(group, "total_value_eur")),
         executives |-> {group[k].author : k \in 1..Len(group)},
         last_trade |-> MaxDate(NotNull(group, "operation_date_parsed"))]

FindExecutiveBuyingTable(t) ==
    LET buys == SelectSeq(t.rows, LAMBDA r : r.is_buy)
        executive_buys == SelectSeq(buys, LAMBDA r : IsExecutive(r.author))
        keys == GroupKeys(executive_buys)
    IN  SortDescending(
            [k \in 1..Len(keys) |-> ExecutiveSummary(executive_buys, keys[k])],
            "total_exec_value")

\* Lines 150-157: one row of recent_summary.
RecentSummary(rs, c) ==
    LET group == SelectSeq(rs, LAMBDA r : r.company = Some(c))
    IN  [company |-> Some(c),
         recent_buy_value |-> Sum(NotNull(group, "total_value_eur")),
         recent_buyers |-> UniqueBuyers(group),
         total_shares |-> Sum(NotNull(group, "quantity")),
         latest_trade |-> MaxDate(NotNull(group, "operation_date_parsed"))]

\* Lines 140-160: find_recent_activity; pd.DataFrame(), a table without rows,
\* when no buy is recent.
FindRecentActivityTable(t, at) ==
    LET recent_buys ==
            SelectSeq(t.rows,
                      LAMBDA r : /\ r.is_buy
                                 /\ Recent(r.operation_date_parsed, at))
        keys == GroupKeys(recent_buys)
    IN  SortDescending(
            [k \in 1..Len(keys) |-> RecentSummary(recent_buys, keys[k])],
            "recent_buy_value")

\* The values in ascending order.
RECURSIVE Ascending(_)
Ascending(vs) ==
    IF vs = <<>> THEN <<>>
    ELSE LET rest == Ascending(Tail(vs))
         IN  SelectSeq(rest, LAMBDA v : v < vs[1]) \o <<vs[1]>>
               \o SelectSeq(rest, LAMBDA v : v >= vs[1])

\* Line 180: twice quantile(0.5) of a column that is not empty: the middle
\* value, or the mean of the two middle values.
TwiceMedian(vs) ==
    LET sorted == Ascending(vs)
        n == Len(sorted)
    IN  IF n % 2 = 1 THEN 2 * sorted[(n + 1) \div 2]
        ELSE sorted[n \div 2] + sorted[n \div 2 + 1]

\* Lines 166-177: one row of ratio_df.  A ratio is the pair of its numerator
\* and its denominator; it is NaN when the denominator is 0.
RatioRow(t, c) ==
    LET of_company == SelectSeq(t.rows, LAMBDA r : r.company = Some(c))
        buy_value ==
            Sum(NotNull(SelectSeq(of_company, LAMBDA r : r.is_buy),
                        "total_value_eur"))
        sell_value ==
            Sum(NotNull(SelectSeq(of_company, LAMBDA r : r.is_sell),
                        "total_value_eur"))
    IN  [company |-> Some(c),
         buy_value |-> buy_value,
         sell_value |-> sell_value,
         total_value |-> buy_value + sell_value,
         buy_ratio |-> [num |-> buy_value, den |-> buy_value + sell_value],
         net_buying |-> buy_value - sell_value]

\* Line 181: buy_ratio >= 0.7, which is False for NaN.
StrongBuyRatio(r) ==
    r.total_value > 0 /\ 10 * r.buy_value >= 7 * r.total_value

\* Lines 166-183: calculate_buy_sell_ratios.  The index of ratio_df is the
\* union of the companies that have a buy and of those that have a sell.
CalculateBuySellRatios(t) ==
    LET traded == SelectSeq(t.rows, LAMBDA r : r.is_buy \/ r.is_sell)
        keys == GroupKeys(traded)
        ratio_df == [k \in 1..Len(keys) |-> RatioRow(t, keys[k])]
        totals == [k \in 1..Len(keys) |-> ratio_df[k].total_value]
        significant_activity ==
            SelectSeq(ratio_df,
                      LAMBDA r : 2 * r.total_value >= TwiceMedian(totals))
        strong_buyers == SelectSeq(significant_activity, StrongBuyRatio)
    IN  SortDescending(strong_buyers, "net_buying")

\* head(n).
HeadRows(rs, n) == SubSeq(rs, 1, IF Len(rs) < n THEN Len(rs) ELSE n)

\* A score is the pair of its numerator and its denominator.
Whole(n) == [num |-> n, den |-> 1]

Plus(a, b) == [num |-> a.num * b.den + b.num * a.den, den |-> a.den * b.den]

Greater(a, b) == a.num * b.den > b.num * a.den

\* Lines 233-261: the scores, as the dict holds them: one entry for each
\* company, in the order the companies were first met.
RECURSIVE AddScores(_, _)
AddScores(companies_scores, factors) ==
    IF factors = <<>> THEN companies_scores
    ELSE LET f == factors[1]
             known == {k \in 1..Len(companies_scores) :
                          companies_scores[k].company = f.company}
             added ==
                 IF known = {}
                 THEN Append(companies_scores,
                             [company |-> f.company,
                              score |-> Plus(Whole(0), f.points),
                              reasons |-> <<f.reason>>])
                 ELSE [k \in 1..Len(companies_scores) |->
                          IF k \in known
                          THEN [company |-> f.company,
                                score |-> Plus(companies_scores[k].score,
                                               f.points),
                                reasons |-> Append(companies_scores[k].reasons,
                                                   f.reason)]
                          ELSE companies_scores[k]]
         IN  AddScores(added, Tail(factors))

\* Lines 235-261: what each of the four tables adds, in the order of the
\* code.
Factors(an) ==
    LET cluster == HeadRows(an.cluster_buying[1], HEAD_ROWS)
        executive == HeadRows(an.executive_buying[1], HEAD_ROWS)
        recent == HeadRows(an.recent_activity[1], HEAD_ROWS)
        ratio == HeadRows(an.buy_sell_ratio[1], HEAD_ROWS)
    IN  [k \in 1..Len(cluster) |->
            [company |-> cluster[k].company,
             points |-> Whole(cluster[k].unique_buyers * CLUSTER_WEIGHT),
             reason |-> "different insiders buying"]]
        \o [k \in 1..Len(executive) |->
            [company |-> executive[k].company,
             points |-> Whole(EXECUTIVE_POINTS),
             reason |-> "Executive-level buying"]]
        \o [k \in 1..Len(recent) |->
            [company |-> recent[k].company,
             points |-> Whole(RECENT_POINTS),
             reason |-> "Recent buying activity"]]
        \o [k \in 1..Len(ratio) |->
            [company |-> ratio[k].company,
             points |-> [num |-> ratio[k].buy_ratio.num * RATIO_WEIGHT,
                         den |-> ratio[k].buy_ratio.den],
             reason |-> "Strong buy ratio"]]

\* Line 273: sort_values('opportunity_score', ascending=False) on a table
\* this small; the rows keep their index labels.
RECURSIVE SortByScore(_)
SortByScore(rs) ==
    IF rs = <<>> THEN <<>>
    ELSE LET rest == SortByScore(Tail(rs))
             before ==
                 SelectSeq(rest,
                           LAMBDA r : Greater(r.opportunity_score,
                                              rs[1].opportunity_score))
             after ==
                 SelectSeq(rest,
                           LAMBDA r : ~Greater(r.opportunity_score,
                                               rs[1].opportunity_score))
         IN  before \o <<rs[1]>> \o after

\* Mutant of RecommendationsTable: the rows stay in the order of the dict.
RecommendationsUnsorted(an) ==
    LET companies_scores == AddScores(<<>>, Factors(an))
    IN  [k \in 1..Len(companies_scores) |->
            [index |-> k - 1,
             company |-> companies_scores[k].company,
             opportunity_score |-> companies_scores[k].score,
             reasons |-> companies_scores[k].reasons]]

\* Lines 230-275: generate_recommendations.  pd.DataFrame(recommendations)
\* labels the rows 0, 1, ... in the order of the dict.
RecommendationsTable(an) ==
    LET companies_scores == AddScores(<<>>, Factors(an))
    IN  SortByScore(
            [k \in 1..Len(companies_scores) |->
                [index |-> k - 1,
                 company |-> companies_scores[k].company,
                 opportunity_score |-> companies_scores[k].score,
                 reasons |-> companies_scores[k].reasons]])

\* Lines 287-294: the entries of the report; iterrows() gives the index
\* label of a row, and the entry is numbered with it.
ReportEntries(an) ==
    LET top == HeadRows(an.recommendations[1], REPORT_ROWS)
    IN  [k \in 1..Len(top) |->
            [number |-> top[k].index + 1,
             company |-> top[k].company,
             score |-> top[k].opportunity_score,
             reasons |-> top[k].reasons]]

\* a is not later than b.
NotLater(a, b) ==
    \/ DayNumber(a.date) < DayNumber(b.date)
    \/ DayNumber(a.date) = DayNumber(b.date) /\ a.secs <= b.secs

\* Lines 43-58: the six entries of the dict that follow cluster_buying, in
\* the order of their assignment.  The tables of large_purchases,
\* repeated_buyers and sector_trends are read by nothing and are not
\* described here.
LATER_ANALYSES ==
    <<"large_purchases", "executive_buying", "recent_activity",
      "buy_sell_ratio", "repeated_buyers", "sector_trends">>

LaterAnalyses ==
    /\ an_pc = "later"
    /\ \E t \in NowValues :
          /\ NotLater(now[1], t)
          /\ now' = Append(now, t)
          /\ analyses' =
                [analyses EXCEPT
                    !.names = @ \o LATER_ANALYSES,
                    !.executive_buying =
                        Some(FindExecutiveBuyingTable(df_clean[1])),
                    !.recent_activity =
                        Some(FindRecentActivityTable(df_clean[1], t)),
                    !.buy_sell_ratio =
                        Some(CalculateBuySellRatios(df_clean[1]))]
    /\ an_pc' = "recommend"
    /\ UNCHANGED <<scraper_vars, amount_vars, pagination_vars, ticker_vars,
                   chart_vars, input_df, df_clean, an_exc, report>>

\* Lines 61-63: the recommendations, and the return.
GenerateRecommendations ==
    /\ an_pc = "recommend"
    /\ analyses' =
          [analyses EXCEPT
              !.names = Append(@, "recommendations"),
              !.recommendations = Some(RecommendationsTable(analyses))]
    /\ an_pc' = "returned"
    /\ UNCHANGED <<scraper_vars, amount_vars, pagination_vars, ticker_vars,
                   chart_vars, input_df, df_clean, an_exc, now, report>>

\* Lines 277-312 (line 324 of run_complete_analysis): create_analysis_report.
CreateAnalysisReport ==
    /\ an_pc = "returned"
    /\ report' = Some(ReportEntries(analyses))
    /\ an_pc' = "reported"
    /\ UNCHANGED <<scraper_vars, amount_vars, pagination_vars, ticker_vars,
                   chart_vars, input_df, df_clean, analyses, an_exc, now>>

\* The records the input tables are drawn from.
Trade(company, operation, author, quantity, price_eur, operation_date) ==
    [company |-> company, operation |-> operation, author |-> author,
     quantity |-> quantity, price_eur |-> price_eur,
     total_value_eur |->
        TotalValue([quantity |-> quantity, price_eur |-> price_eur]),
     operation_date |-> operation_date,
     operation_date_parsed |-> ToDatetime(operation_date)]

JEAN == Some(<<"Jean Dupont">>)
ANNE == Some(<<"Anne Martin, PDG">>)

FooBoughtByJean ==
    Trade(Some(<<"Foo">>), Some("Acquisition"), JEAN, Some(3), Some(5),
          Some("01/07/2025"))
FooBoughtByAnne ==
    Trade(Some(<<"Foo">>), Some("Achat"), ANNE, Some(2), Some(5),
          Some("01/07/2025"))
FooBoughtByAnneNoQuantity ==
    Trade(Some(<<"Foo">>), Some("Acquisition"), ANNE, None, Some(5),
          Some("01/07/2025"))
FooSoldByAnne ==
    Trade(Some(<<"Foo">>), Some("Cession"), ANNE, Some(3), Some(5),
          Some("hier"))
BarBoughtByJean ==
    Trade(Some(<<"Bar">>), Some("Souscription"), JEAN, Some(4), Some(5), None)
BarBoughtByNobody ==
    Trade(Some(<<"Bar">>), Some("Acquisition"), None, Some(2), Some(5),
          Some("01/07/2025"))
BarPledged ==
    Trade(Some(<<"Bar">>), Some("Nantissement"), ANNE, Some(1), Some(5), None)
NoCompany ==
    Trade(None, None, JEAN, Some(3), Some(5), Some("01/07/2025"))

BarBoughtAndSold ==
    Trade(Some(<<"Bar">>), Some("Achat-Vente"), JEAN, Some(2), Some(5),
          Some("01/07/2025"))

\* One buy by an executive for each of eleven companies, of 5, 10, ..., 55
\* EUR: one company more than head(10) keeps.
ElevenBuys ==
    [k \in 1..11 |->
        Trade(Some(COMPANIES[k + 1]), Some("Achat"), ANNE, Some(k), Some(5),
              Some("01/07/2025"))]

TradeKinds ==
    {FooBoughtByJean, FooBoughtByAnne, FooBoughtByAnneNoQuantity,
     FooSoldByAnne, BarBoughtByJean, BarBoughtByNobody, BarPledged, NoCompany}

\* The date columns a table may have besides the required ones: none, the
\* text column, or the text column and the parsed one (the scraper's table).
DateColumnSets ==
    {{}, {"operation_date"}, {"operation_date", "operation_date_parsed"}}

\* The rows of a table that has the given columns: the cells of the columns
\* it does not have are null and are not read.
WithColumns(columns, rs) ==
    LET Cell(r, col) == IF col \in columns THEN r[col] ELSE None
    IN  [columns |-> columns,
         rows |->
            [k \in 1..Len(rs) |->
                [company |-> Cell(rs[k], "company"),
                 operation |-> Cell(rs[k], "operation"),
                 author |-> Cell(rs[k], "author"),
                 quantity |-> Cell(rs[k], "quantity"),
                 price_eur |-> Cell(rs[k], "price_eur"),
                 total_value_eur |-> Cell(rs[k], "total_value_eur"),
                 operation_date |-> Cell(rs[k], "operation_date"),
                 operation_date_parsed |->
                    Cell(rs[k], "operation_date_parsed")]]]

\* Tables of more than MaxTrades rows, and tables with an operation text
\* that names a purchase and a sale.
LargerTables ==
    {ElevenBuys,
     <<BarBoughtAndSold>>,
     <<BarBoughtAndSold, FooBoughtByJean>>,
     <<FooSoldByAnne, BarBoughtAndSold, BarBoughtByJean>>}

\* The tables analyze_insider_opportunities is called with: every set of
\* columns with at most one row, every table of up to MaxTrades rows that
\* has the six required columns, and the tables of LargerTables with the
\* columns of the scraper's table.
InputTables ==
    {WithColumns(req \cup dates, rs) :
        req \in SUBSET Range(REQUIRED_COLS), dates \in DateColumnSets,
        rs \in SeqUpTo(TradeKinds, 1)}
    \cup
    {WithColumns(Range(REQUIRED_COLS) \cup dates, rs) :
        dates \in DateColumnSets, rs \in SeqUpTo(TradeKinds, MaxTrades)}
    \cup
    {WithColumns(Range(REQUIRED_COLS)
                    \cup {"operation_date", "operation_date_parsed"}, rs) :
        rs \in LargerTables}

InitAnalysis ==
    /\ ScraperIdle
    /\ AmountIdle
    /\ PaginationIdle
    /\ TickerIdle
    /\ ChartsIdle
    /\ input_df \in InputTables
    /\ df_clean = None
    /\ analyses = EmptyAnalyses
    /\ an_exc = None
    /\ an_pc = "call"
    /\ now = <<>>
    /\ report = None

NextAnalysis ==
    \/ CheckColumns
    \/ CleanData
    \/ FindClusterBuying
    \/ LaterAnalyses
    \/ GenerateRecommendations
    \/ CreateAnalysisReport

\* analyze_insider_opportunities on every table of InputTables.
SpecAnalysis == InitAnalysis /\ [][NextAnalysis]_vars

(***************************************************************************)
(* The market-data operations (src/analysis/ticker.py).  A value is        *)
(* [type, rows, items]: a DataFrame has rows, a dict has items, None has   *)
(* neither.  The date range, the period and the interval select the rows   *)
(* the provider answers with and are left out.                             *)
(***************************************************************************)
DataFrameOf(rs) == [type |-> "DataFrame", rows |-> rs, items |-> <<>>]
DictOf(items) == [type |-> "dict", rows |-> <<>>, items |-> items]
PyNone == [type |-> "NoneType", rows |-> <<>>, items |-> <<>>]

\* The history the provider answers with for a ticker it knows.
HISTORY == <<[Close |-> 100], [Close |-> 110]>>

\* Lines 48-71: get_stock_history.  stock.history raises ("error") or answers;
\* an empty answer raises ValueError at line 65; line 69 catches both and
\* line 71 returns an empty DataFrame.
StockHistory(outcome) ==
    IF outcome = "data"
    THEN [value |-> Some(DataFrameOf(HISTORY)), raised |-> None]
    ELSE [value |-> Some(DataFrameOf(<<>>)), raised |-> None]

\* Lines 106-128: get_stock_info.  stock.info raises ("error") or answers
\* with a dict, which is empty for a ticker the provider does not know; line
\* 126 catches the exception and the function ends without a return.
StockInfo(t, outcome) ==
    CASE outcome = "data" ->
            [value |-> Some(DictOf([ticker |-> t, name |-> "longName"])),
             raised |-> None]
      [] outcome = "empty" ->
            [value |-> Some(DictOf([ticker |-> t, name |-> "N/A"])),
             raised |-> None]
      [] outcome = "error" -> [value |-> Some(PyNone), raised |-> None]

\* The call is over: the value is returned or the exception leaves.
TickerOver(outcome) ==
    /\ tk_return' = outcome.value
    /\ tk_exc' = outcome.raised
    /\ tk_pc' = IF outcome.raised = None THEN "returned" ELSE "raised"

\* Lines 19-71.
GetStockHistory ==
    /\ tk_pc = "call"
    /\ tk_op = "get_stock_history"
    /\ TickerOver(StockHistory(provider[tickers[1]]))
    /\ UNCHANGED <<scraper_vars, amount_vars, pagination_vars, analysis_vars,
                   chart_vars, tk_op, tickers, provider, results, tk_k>>

\* Lines 74-93: get_daily_prices returns what get_stock_history returns for
\* the window.
GetDailyPrices ==
    /\ tk_pc = "call"
    /\ tk_op = "get_daily_prices"
    /\ TickerOver(StockHistory(provider[tickers[1]]))
    /\ UNCHANGED <<scraper_vars, amount_vars, pagination_vars, analysis_vars,
                   chart_vars, tk_op, tickers, provider, results, tk_k>>

\* Lines 96-128.
GetStockInfo ==
    /\ tk_pc = "call"
    /\ tk_op = "get_stock_info"
    /\ TickerOver(StockInfo(tickers[1], provider[tickers[1]]))
    /\ UNCHANGED <<scraper_vars, amount_vars, pagination_vars, analysis_vars,
                   chart_vars, tk_op, tickers, provider, results, tk_k>>

\* results[ticker] = frame: the key is added, or its value replaced.
SetItem(d, key, value) ==
    [k \in DOMAIN d \cup {key} |-> IF k = key THEN value ELSE d[k]]

\* Lines 151-156: one iteration of the loop over the tickers.
MultipleHistoryIterate ==
    /\ tk_pc = "call"
    /\ tk_op = "get_multiple_stocks_history"
    /\ tk_k < Len(tickers)
    /\ LET ticker == tickers[tk_k + 1]
           hist == StockHistory(provider[ticker])
       IN  IF hist.raised = None
           THEN results' = SetItem(results, ticker, hist.value[1])
           ELSE results' = SetItem(results, ticker, DataFrameOf(<<>>))
    /\ tk_k' = tk_k + 1
    /\ UNCHANGED <<scraper_vars, amount_vars, pagination_vars, analysis_vars,
                   chart_vars, tk_op, tickers, provider, tk_return, tk_exc,
                   tk_pc>>

\* Line 158.
MultipleHistoryReturn ==
    /\ tk_pc = "call"
    /\ tk_op = "get_multiple_stocks_history"
    /\ tk_k = Len(tickers)
    /\ TickerOver([value |-> Some(DictOf(results)), raised |-> None])
    /\ UNCHANGED <<scraper_vars, amount_vars, pagination_vars, analysis_vars,
                   chart_vars, tk_op, tickers, provider, results, tk_k>>

\* Lines 161-193: get_price_change.  Line 175 calls get_daily_prices with the
\* keyword include_volume, which get_daily_prices (lines 74-77) does not
\* take: the call raises TypeError before the provider is asked, and lines
\* 177-193 are not reached.
GetPriceChange ==
    /\ tk_pc = "call"
    /\ tk_op = "get_price_change"
    /\ TickerOver([value |-> None, raised |-> Some("TypeError")])
    /\ UNCHANGED <<scraper_vars, amount_vars, pagination_vars, analysis_vars,
                   chart_vars, tk_op, tickers, provider, results, tk_k>>

\* The tickers of the model, the second unknown to FRENCH_STOCKS.
TICKERS == {"AIR.PA", "XX.PA"}

SINGLE_TICKER_OPS ==
    {"get_stock_history", "get_daily_prices", "get_stock_info",
     "get_price_change"}

InitTicker ==
    /\ ScraperIdle
    /\ AmountIdle
    /\ PaginationIdle
    /\ AnalysisIdle
    /\ ChartsIdle
    /\ \/ /\ tk_op \in SINGLE_TICKER_OPS
          /\ tickers \in [1..1 -> TICKERS]
       \/ /\ tk_op = "get_multiple_stocks_history"
          /\ tickers \in SeqUpTo(TICKERS, MaxTickers)
    /\ provider \in [TICKERS -> {"data", "empty", "error"}]
    /\ results = <<>>
    /\ tk_k = 0
    /\ tk_return = None
    /\ tk_exc = None
    /\ tk_pc = "call"

NextTicker ==
    \/ GetStockHistory
    \/ GetDailyPrices
    \/ GetStockInfo
    \/ MultipleHistoryIterate
    \/ MultipleHistoryReturn
    \/ GetPriceChange

\* Every market-data operation, for every behaviour of the provider.
SpecTicker == InitTicker /\ [][NextTicker]_vars

(***************************************************************************)
(* The pipeline: the scraper, then a consumer of its table.  The table is  *)
(* analysed (run_complete_analysis, src/analysis/score.py), or it is saved *)
(* (save_to_csv, src/analysis/scrapping.py) and the saved file is loaded   *)
(* and charted (example_usage, src/analysis/vizualisation.py).  A cell of  *)
(* a parsed-date column of the loaded table is <<>> (NaN, NaT) or          *)
(* <<[dtype, text, date]>>: a str holds a text, a datetime64 a date.       *)
(***************************************************************************)
StrCell(text) == Some([dtype |-> "str", text |-> text, date |-> <<>>])
TimestampCell(d) == Some([dtype |-> "datetime64", text |-> "", date |-> d])

\* to_csv writes a datetime as its ISO text and NaT as the empty text.
TwoDigits(n) == IF n < 10 THEN "0" \o ToString(n) ELSE ToString(n)

IsoText(d) ==
    ToString(d[1]) \o "-" \o TwoDigits(d[2]) \o "-" \o TwoDigits(d[3])

WriteDate(o) == IF o = None THEN "" ELSE IsoText(o[1])

\* scrapping.py line 240: df.to_csv.  The cells of the record's own columns
\* are written and read back with their values; the two parsed columns are
\* written as text.
ToCsv(table) ==
    [k \in 1..Len(table) |->
        [record |-> table[k].record,
         operation_date_parsed |-> WriteDate(table[k].operation_date_parsed),
         declaration_date_parsed |->
            WriteDate(table[k].declaration_date_parsed)]]

\* read_csv reads an empty cell as NaN and leaves a date text a str.
ReadDate(text) == IF text = "" THEN None ELSE StrCell(text)

\* vizualisation.py line 316: pd.read_csv.
FromCsv(file) ==
    [k \in 1..Len(file) |->
        [record |-> file[k].record,
         operation_date_parsed |-> ReadDate(file[k].operation_date_parsed),
         declaration_date_parsed |->
            ReadDate(file[k].declaration_date_parsed)]]

\* The dates the texts of the model denote.
DATES == {<<2025, 7, 1>>}

\* pd.to_datetime of one cell: NaN gives NaT, a datetime is kept and an ISO
\* text is parsed.
ToDatetimeCell(c) ==
    IF c = None THEN None
    ELSE IF c[1].dtype = "datetime64" THEN c
    ELSE TimestampCell(CHOOSE d \in DATES : IsoText(d) = c[1].text)

\* Mutant of ParsedInPlace: the parsed date is written to the record's
\* operation_date as well.
ParsedInPlaceOverRecord(table) ==
    [k \in 1..Len(table) |->
        [record |-> [table[k].record EXCEPT !.operation_date = None],
         operation_date_parsed |->
            ToDatetimeCell(table[k].operation_date_parsed),
         declaration_date_parsed |-> table[k].declaration_date_parsed]]

\* vizualisation.py lines 66 and 225: insider_df['operation_date_parsed'] =
\* pd.to_datetime(insider_df['operation_date_parsed']), an assignment to a
\* column of the caller's table.
ParsedInPlace(table) ==
    [k \in 1..Len(table) |->
        [record |-> table[k].record,
         operation_date_parsed |->
            ToDatetimeCell(table[k].operation_date_parsed),
         declaration_date_parsed |-> table[k].declaration_date_parsed]]

\* scrapping.py lines 338-340: the table is saved when it is not empty.
SaveToCsv ==
    /\ pc = "done"
    /\ an_pc = "idle"
    /\ df[1] # <<>>
    /\ csv_file = None
    /\ csv_file' = Some(ToCsv(df[1]))
    /\ UNCHANGED <<scraper_vars, amount_vars, pagination_vars, analysis_vars,
                   ticker_vars, insider_df, figures>>

\* vizualisation.py line 316.
ReadCsv ==
    /\ csv_file # None
    /\ insider_df = None
    /\ insider_df' = Some(FromCsv(csv_file[1]))
    /\ UNCHANGED <<scraper_vars, amount_vars, pagination_vars, analysis_vars,
                   ticker_vars, csv_file, figures>>

\* vizualisation.py lines 9-206: create_insider_trading_chart.  The table of
\* a saved file has the columns line 60 asks for.
CreateInsiderTradingChart ==
    /\ insider_df # None
    /\ "trading" \notin figures
    /\ insider_df' = Some(ParsedInPlace(insider_df[1]))
    /\ figures' = figures \cup {"trading"}
    /\ UNCHANGED <<scraper_vars, amount_vars, pagination_vars, analysis_vars,
                   ticker_vars, csv_file>>

\* vizualisation.py lines 209-306: create_insider_summary_chart.
CreateInsiderSummaryChart ==
    /\ insider_df # None
    /\ "summary" \notin figures
    /\ insider_df' = Some(ParsedInPlace(insider_df[1]))
    /\ figures' = figures \cup {"summary"}
    /\ UNCHANGED <<scraper_vars, amount_vars, pagination_vars, analysis_vars,
                   ticker_vars, csv_file>>

\* The scraper's table as analyze_insider_opportunities reads it: a table
\* made from no record has no column.
AnalysisTable(table) ==
    [columns |->
        IF table = <<>> THEN {}
        ELSE Range(REQUIRED_COLS)
                 \cup {"operation_date", "operation_date_parsed"},
     rows |->
        [k \in 1..Len(table) |->
            [company |-> table[k].record.company,
             operation |-> Some(table[k].record.operation),
             author |-> table[k].record.author,
             quantity |-> table[k].record.quantity,
             price_eur |-> table[k].record.price_eur,
             total_value_eur |-> table[k].record.total_value_eur,
             operation_date |-> table[k].record.operation_date,
             operation_date_parsed |-> table[k].operation_date_parsed]]]

\* score.py lines 315-321: run_complete_analysis calls
\* analyze_insider_opportunities with the scraper's table, in a run that
\* does not save it.
RunCompleteAnalysis ==
    /\ pc = "done"
    /\ an_pc = "idle"
    /\ csv_file = None
    /\ input_df' = AnalysisTable(df[1])
    /\ an_pc' = "call"
    /\ UNCHANGED <<scraper_vars, amount_vars, pagination_vars, ticker_vars,
                   chart_vars, df_clean, analyses, an_exc, now, report>>

NextPipeline ==
    \/ NextFair
    \/ RunCompleteAnalysis
    \/ NextAnalysis
    \/ SaveToCsv
    \/ ReadCsv
    \/ CreateInsiderTradingChart
    \/ CreateInsiderSummaryChart

\* scrapping.py lines 311 and 333: the pipeline scrapes from page 1.
InitPipeline == Init /\ start_page = 1

\* The scraper over every page range 1..end_page within 1..MaxPage, its
\* pages drawn from SampleBodies, and then the consumers of its table.
SpecPipeline == InitPipeline /\ [][NextPipeline]_vars

(***************************************************************************)
(* The claims.                                                             *)
(***************************************************************************)

\* The row under the cursor is a summary row: no detail class and at least
\* 6 cells.
AtSummaryRow ==
    /\ pc = "rows"
    /\ i < Len(rows)
    /\ ~rows[i + 1].cls
    /\ rows[i + 1].ncells >= 6

\* A detail-class row follows the row under the cursor.
DetailFollows == i + 1 < Len(rows) /\ rows[i + 2].cls

\* The three attempts of the last requested page have all failed.
AllAttemptsFailed ==
    /\ last_get # None
    /\ ~last_get[1].ok
    /\ last_get[1].nth = 3

\* C1: a page whose 3 fetch attempts all fail adds no record carrying its
\* number to the output, and the run does not raise.
C1_FailedPageAddsNoRecord ==
    /\ pc # "raised"
    /\ AllAttemptsFailed =>
          \A k \in 1..Len(all_trades) :
              all_trades[k].scraped_page # last_get[1].page

\* C2: a summary row immediately followed by a detail-class row makes exactly
\* one record, which combines the fields of both rows, and the cursor
\* advances by exactly 2.
C2_PairMakesOneRecord ==
    [][(AtSummaryRow /\ DetailFollows) =>
          /\ i' = i + 2
          /\ trade_record' # None
          /\ trade_record'[1].src_row = i
          /\ trade_record'[1].company = rows[i + 1].company
          /\ trade_record'[1].declaration_date = rows[i + 1].declaration_date
          /\ (rows[i + 2].has_table =>
                /\ trade_record'[1].operation_date = rows[i + 2].operation_date
                /\ (rows[i + 2].quantity.kind = "num" =>
                      trade_record'[1].quantity = <<rows[i + 2].quantity.val>>)
                /\ (rows[i + 2].price.kind = "num" =>
                      trade_record'[1].price_eur = <<rows[i + 2].price.val>>))
          /\ Len(all_trades') <= Len(all_trades) + 1]_vars

\* C3: a summary row not followed by a detail-class row makes exactly one
\* record, whose detail-sourced fields are all null, and the cursor advances
\* by exactly 1.
C3_LoneSummaryMakesNullDetail ==
    [][(AtSummaryRow /\ ~DetailFollows) =>
          /\ i' = i + 1
          /\ trade_record' # None
          /\ trade_record'[1].src_row = i
          /\ trade_record'[1].company = rows[i + 1].company
          /\ trade_record'[1].author = None
          /\ trade_record'[1].operation_date = None
          /\ trade_record'[1].quantity = None
          /\ trade_record'[1].price_eur = None
          /\ trade_record'[1].total_value_eur = None
          /\ trade_record'[1].comments = None
          /\ Len(all_trades') <= Len(all_trades) + 1]_vars

\* C3 witness: the record of a summary row that no detail row follows has
\* just been built, and the cursor is one row further.
C3_Witness ==
    /\ pc = "rows"
    /\ trade_record # None
    /\ i = trade_record[1].src_row + 1
    /\ trade_record[1].company # None
    /\ trade_record[1].author = None
    /\ i < Len(rows)
    /\ ~rows[i + 1].cls

\* C4: every record of the output has a company and an author, in the
\* collection and in the returned table, and a candidate built with a null
\* company or a null author is not in the collection.
C4_OutputHasCompanyAndAuthor ==
    /\ \A k \in 1..Len(all_trades) :
          all_trades[k].company # None /\ all_trades[k].author # None
    /\ df # None =>
          \A k \in 1..Len(df[1]) :
              df[1][k].record.company # None /\ df[1][k].record.author # None
    /\ (trade_record # None
          /\ (trade_record[1].company = None \/ trade_record[1].author = None)) =>
          \A k \in 1..Len(all_trades) : all_trades[k] # trade_record[1]

\* C4 witness: after one record was kept, a candidate with a null company or
\* a null author has been built and left out.
C4_Witness ==
    /\ pc = "rows"
    /\ Len(all_trades) = 1
    /\ trade_record # None
    /\ trade_record[1].company = None \/ trade_record[1].author = None
    /\ trade_record[1].src_row = 2

\* C5: in every record of the output, total_value_eur is non-null exactly
\* when quantity and price_eur are both non-null, and is then their product,
\* the value 0 included.
C5_TotalIffBothPresent ==
    \A k \in 1..Len(all_trades) :
        LET r == all_trades[k]
        IN  /\ r.total_value_eur # None <=>
                  (r.quantity # None /\ r.price_eur # None)
            /\ r.total_value_eur # None =>
                  r.total_value_eur[1] = r.quantity[1] * r.price_eur[1]

\* C6: a page gets at most 3 GET attempts, none after a successful one, and
\* 2 time-units pass between two consecutive attempts on the same page.
C6_AtMostThreeSpacedAttempts ==
    /\ last_get # None => last_get[1].nth <= 3
    /\ (pc = "get" /\ last_get # None /\ last_get[1].page = page) =>
          /\ ~last_get[1].ok
          /\ last_get[1].nth < 3
          /\ waited = 2

\* C6 witness: two attempts on the page have failed, 2 time-units have passed
\* since the second, and the third is about to be issued.
C6_Witness ==
    /\ pc = "get"
    /\ last_get # None
    /\ last_get[1].page = page
    /\ last_get[1].nth = 2
    /\ ~last_get[1].ok
    /\ waited = 2

\* C7: whatever fails, no exception leaves the function, the pages are
\* requested in ascending order from start_page without a gap, the run can
\* always go on until it returns, and when it returns every page of the range
\* was requested and a table is returned.
C7_EveryPageRequestedInOrder ==
    /\ pc # "raised"
    /\ \A k \in 1..Len(requested) : requested[k] = start_page + k - 1
    /\ pc = "done" \/ ENABLED Next
    /\ pc = "done" =>
          /\ df # None
          /\ Len(requested) =
                IF end_page >= start_page THEN end_page - start_page + 1 ELSE 0

\* C7 witness: every attempt of both pages of the range 1..2 failed, 'response'
\* was never bound, and the function has returned its table.
C7_Witness ==
    /\ pc = "done"
    /\ requested = <<1, 2>>
    /\ response = None
    /\ df # None

\* C8: after a successful fetch, 1 time-unit passes before the next GET is
\* issued, whatever the fetched page holds.
C8_DelayAfterSuccessfulFetch ==
    (pc = "get" /\ last_get # None /\ last_get[1].ok) => waited >= 1

\* C9: with the cursor on a row of fewer than 6 cells, the step makes no
\* record, raises nothing and moves the cursor by one row, so that a detail
\* row that follows is not consumed with it.
C9_ShortRowSkipped ==
    [][(pc = "rows" /\ i < Len(rows) /\ rows[i + 1].ncells < 6) =>
          /\ i' = i + 1
          /\ pc' = "rows"
          /\ exc' = None
          /\ trade_record' = trade_record
          /\ all_trades' = all_trades]_vars

\* C9 witness: the cursor has passed a short row without the detail class and
\* stands on the detail row that follows it; nothing was built.
C9_Witness ==
    /\ pc = "rows"
    /\ i = 1
    /\ Len(rows) >= 2
    /\ ~rows[1].cls
    /\ rows[1].ncells < 6
    /\ rows[2].cls
    /\ rows[2].has_table
    /\ trade_record = None
    /\ all_trades = <<>>

\* C10: the output is in ascending page order and, within a page, in the
\* order of the summary rows; the returned table keeps that order.
C10_OutputInRowOrder ==
    /\ \A k \in 1..(Len(all_trades) - 1) :
          \/ all_trades[k].scraped_page < all_trades[k + 1].scraped_page
          \/ /\ all_trades[k].scraped_page = all_trades[k + 1].scraped_page
             /\ all_trades[k].src_row < all_trades[k + 1].src_row
    /\ df # None =>
          /\ Len(df[1]) = Len(all_trades)
          /\ \A k \in 1..Len(all_trades) : df[1][k].record = all_trades[k]

\* C10 witness: the returned table holds two records of page 1 and then one
\* of page 2.
C10_Witness ==
    /\ pc = "done"
    /\ Len(df[1]) = 3
    /\ df[1][1].record.scraped_page = 1
    /\ df[1][2].record.scraped_page = 1
    /\ df[1][3].record.scraped_page = 2

\* C11: a response without a results table, or whose table has no body, adds
\* no record and raises nothing, and the loop goes on to the next page.
C11_NoTableAddsNothing ==
    [][(/\ pc = "parse"
        /\ response # None
        /\ ~(response[1].body.table /\ response[1].body.tbody)) =>
          /\ all_trades' = all_trades
          /\ exc' = None
          /\ pc' = "for_page"
          /\ page' = page + 1]_vars

\* C11 witness: page 1 was fetched, its table had no body, nothing was kept
\* and page 2 is about to be requested.
C11_Witness ==
    /\ pc = "get"
    /\ page = 2
    /\ last_get # None /\ last_get[1].page = 1 /\ last_get[1].ok
    /\ response # None /\ response[1].of_page = 1
    /\ response[1].body.table /\ ~response[1].body.tbody
    /\ all_trades = <<>>
    /\ exc = None

\* The amount text under the cursor holds a character no numeral holds.
AmountFails ==
    \E k \in 1..Len(rows[i + 1].amount_str) :
        rows[i + 1].amount_str[k] \notin
            {"0", "1", "2", "3", "4", "5", "6", "7", "8", "9",
             ",", ".", " ", EURO, NBSP}

\* The quantity (the price) of the detail row after the cursor does not parse.
QuantityFails ==
    DetailFollows /\ rows[i + 2].has_table /\ rows[i + 2].quantity.kind = "bad"

PriceFails ==
    DetailFollows /\ rows[i + 2].has_table /\ rows[i + 2].price.kind = "bad"

C19_ParsedResponseIsOfPage ==
    pc = "rows" => response[1].of_page = page

\* The 0-based indexes of the detail-class rows of the parsed table.
DetailIndexes(rs) == {k \in 0..(Len(rs) - 1) : rs[k + 1].cls}

\* C20: every retained record of the page comes from a row without the
\* detail class and with at least 6 cells that a detail-class row follows,
\* no two records come from the same pair, the records are no more than the
\* detail-class rows, and a detail-class row that no such summary row
\* precedes gives no record.
C20_RecordsComeFromPairs ==
    all_trades # <<>> =>
        /\ response # None
        /\ LET rs == response[1].body.rows
           IN  /\ \A k \in 1..Len(all_trades) :
                     LET j == all_trades[k].src_row
                     IN  /\ j + 2 <= Len(rs)
                         /\ ~rs[j + 1].cls
                         /\ rs[j + 1].ncells >= 6
                         /\ rs[j + 2].cls
               /\ \A k, l \in 1..Len(all_trades) :
                     k # l => all_trades[k].src_row # all_trades[l].src_row
               /\ Len(all_trades) <= Cardinality(DetailIndexes(rs))
               /\ \A d \in DetailIndexes(rs) :
                     (d = 0 \/ rs[d].cls \/ rs[d].ncells < 6) =>
                         \A k \in 1..Len(all_trades) :
                             all_trades[k].src_row \notin {d - 1, d}

\* C20 witness: the table begins with a detail-class row that no summary row
\* precedes, then holds a pair; the pair gave the one record.
C20_Witness ==
    /\ pc = "rows"
    /\ Len(rows) = 3
    /\ i = 3
    /\ rows[1].cls /\ rows[1].has_table
    /\ ~rows[2].cls /\ rows[3].cls
    /\ Len(all_trades) = 1
    /\ all_trades[1].src_row = 1

\* The amount text without the characters the parse removes, its commas
\* turned into points.
C18_Cleaned ==
    LET kept == SelectSeq(amount_str, LAMBDA c : c \notin {EURO, " ", NBSP})
    IN  [k \in 1..Len(kept) |-> IF kept[k] = "," THEN "." ELSE kept[k]]

\* C18_Cleaned is a decimal numeral.
C18_IsNumber ==
    /\ \A k \in 1..Len(C18_Cleaned) :
          C18_Cleaned[k] \in
              {"0", "1", "2", "3", "4", "5", "6", "7", "8", "9", "."}
    /\ Cardinality({k \in 1..Len(C18_Cleaned) : C18_Cleaned[k] = "."}) <= 1
    /\ \E k \in 1..Len(C18_Cleaned) : C18_Cleaned[k] # "."

\* C18: the amount is what the text reads as once every currency symbol and
\* whitespace character is removed and every comma is a point: null when
\* that is no number, the number otherwise, whatever was removed ("1 234,56 €"
\* gives 1234.56 and "abc" gives null); the parse raises nothing.
C18_AmountParse ==
    /\ amount_pc \in {"idle", "call", "returned"}
    /\ amount_pc = "returned" =>
          /\ ~C18_IsNumber => amount = None
          /\ C18_IsNumber =>
                /\ amount # None
                /\ amount = ParseAmount(C18_Cleaned)
                /\ amount[1].frac <= Len(C18_Cleaned)
                /\ amount[1].frac > 0 => amount[1].mant % 10 # 0
          /\ amount_str = AmountText =>
                amount = Some([mant |-> 123456, frac |-> 2])
          /\ amount_str = <<"a", "b", "c">> => amount = None
          /\ amount_str = <<"1", ",", "2">> =>
                amount = Some([mant |-> 12, frac |-> 1])
          /\ amount_str = <<"1", " ", "2">> =>
                amount = Some([mant |-> 12, frac |-> 0])
          /\ amount_str = <<"2", "0", EURO>> =>
                amount = Some([mant |-> 20, frac |-> 0])
          /\ amount_str = <<"1", ",", ",">> => amount = None

\* C18 witness: "1 234,56 €" was parsed to 1234.56.
C18_Witness ==
    /\ amount_pc = "returned"
    /\ amount_str = AmountText
    /\ amount = Some([mant |-> 123456, frac |-> 2])

\* C13: whenever at least one of the six required columns is absent from the
\* input table, analyze_insider_opportunities raises an error that names
\* exactly the absent required columns, each once, and no derived table is
\* computed.
C13_MissingColumnsRaise ==
    an_pc \notin {"idle", "call"} =>
        LET absent ==
                {c \in {"company", "operation", "author", "quantity",
                        "price_eur", "total_value_eur"} :
                    c \notin input_df.columns}
        IN  absent # {} =>
                /\ an_pc = "raised"
                /\ an_exc # None
                /\ an_exc[1].type = "ValueError"
                /\ {an_exc[1].names[k] : k \in 1..Len(an_exc[1].names)} = absent
                /\ Len(an_exc[1].names) = Cardinality(absent)
                /\ df_clean = None
                /\ analyses.names = <<>>
                /\ analyses.cluster_buying = None

\* C13 witness: a table of one row without the columns author and price_eur
\* was rejected with an error naming the two.
C13_Witness ==
    /\ an_pc = "raised"
    /\ input_df.rows # <<>>
    /\ an_exc =
          Some([type |-> "ValueError", names |-> <<"author", "price_eur">>])
    /\ df_clean = None

\* C14: for every input table that has the six required columns,
\* analyze_insider_opportunities raises nothing and returns the eight named
\* tables.
C14_OnlyMissingColumnsRaise ==
    (\A c \in {"company", "operation", "author", "quantity", "price_eur",
               "total_value_eur"} : c \in input_df.columns) =>
        /\ an_exc = None
        /\ an_pc # "raised"
        /\ an_pc = "returned" =>
              {analyses.names[k] : k \in 1..Len(analyses.names)} =
                  {"cluster_buying", "large_purchases", "executive_buying",
                   "recent_activity", "buy_sell_ratio", "repeated_buyers",
                   "sector_trends", "recommendations"}

\* The authors of the buy records of a company in the input table.
C16_Buyers(c) ==
    {input_df.rows[k].author[1] :
        k \in {j \in 1..Len(input_df.rows) :
                  /\ input_df.rows[j].company = c
                  /\ input_df.rows[j].operation # None
                  /\ IsBuy(input_df.rows[j].operation[1])
                  /\ input_df.rows[j].author # None}}

\* C16: once the analysis has returned, a company of the input table is in
\* the cluster_buying table if and only if its buy records come from at least
\* 2 distinct authors, and its unique_buyers is the number of those authors.
C16_ClusterIffTwoBuyers ==
    an_pc = "returned" =>
        LET cluster == analyses.cluster_buying[1]
        IN  \A j \in 1..Len(input_df.rows) :
                LET c == input_df.rows[j].company
                    listed == {k \in 1..Len(cluster) : cluster[k].company = c}
                IN  c # None =>
                        /\ listed # {} <=> Cardinality(C16_Buyers(c)) >= 2
                        /\ \A k \in listed :
                              cluster[k].unique_buyers =
                                  Cardinality(C16_Buyers(c))

\* The provider raises for the ticker.
C15_ProviderFails(t) == provider[t] = "error"

\* C15: when the provider raises for a ticker, the operation called with it
\* lets no error out and returns an empty result: an empty table, nothing at
\* all for get_stock_info, and for get_multiple_stocks_history an empty table
\* under that ticker.
C15_ProviderErrorsGiveEmptyResults ==
    (/\ tk_pc \in {"returned", "raised"}
     /\ \E k \in 1..Len(tickers) : C15_ProviderFails(tickers[k])) =>
        /\ tk_pc = "returned"
        /\ tk_exc = None
        /\ tk_op \in {"get_stock_history", "get_daily_prices",
                      "get_price_change"} =>
              /\ tk_return[1].type = "DataFrame"
              /\ tk_return[1].rows = <<>>
        /\ tk_op = "get_stock_info" => tk_return[1].type = "NoneType"
        /\ tk_op = "get_multiple_stocks_history" =>
              \A k \in 1..Len(tickers) :
                  C15_ProviderFails(tickers[k]) =>
                      tk_return[1].items[tickers[k]].rows = <<>>

\* C17: a record, once appended, keeps the value of every field and its
\* position through every later step: the collection only grows at its end
\* while pages are scraped, the table that is returned holds the records of
\* the collection in its order and never changes, and the table the charts
\* are drawn from keeps its records and their order (the chart functions
\* assign to its column operation_date_parsed, which is no field of a
\* record).
C17_RecordsImmutable ==
    [][/\ Len(all_trades') >= Len(all_trades)
       /\ SubSeq(all_trades', 1, Len(all_trades)) = all_trades
       /\ df' # None =>
             /\ Len(df'[1]) = Len(all_trades')
             /\ \A k \in 1..Len(all_trades') :
                   df'[1][k].record = all_trades'[k]
       /\ df # None => df' = df
       /\ insider_df # None =>
             /\ insider_df' # None
             /\ Len(insider_df'[1]) = Len(insider_df[1])
             /\ \A k \in 1..Len(insider_df[1]) :
                   insider_df'[1][k].record = insider_df[1][k].record]_vars

\* C17 witness: two records were extracted, the table was saved, loaded and
\* drawn twice: the parsed date of the loaded table is a datetime and the
\* records are those that were appended.
C17_Witness ==
    /\ Len(all_trades) = 2
    /\ figures = {"trading", "summary"}
    /\ insider_df # None
    /\ insider_df[1][1].operation_date_parsed = TimestampCell(<<2025, 7, 1>>)
    /\ insider_df[1][1].record = all_trades[1]
    /\ insider_df[1][2].record = all_trades[2]
    /\ all_trades[1].operation_date = Some("01/07/2025")


\* The GETs issued since the call.
GetsIssued == gets[1]

\* The pages of the range start_page..end_page.
PagesInRange == IF start_page > end_page THEN 0 ELSE end_page - start_page + 1

\* C21: scrape_insider_trades terminates for every page range and every row
\* list: the run reaches its return, every iteration of the row loop moves
\* the row cursor strictly forward, and the GETs issued are never more than
\* 3 times the pages of the range (none when start_page > end_page).
C21_Terminates ==
    /\ <>(pc = "done")
    /\ [][(pc = "rows" /\ i < Len(rows)) => i' > i]_vars
    /\ [](GetsIssued <= 3 * PagesInRange)

\* C21 witness: a range of two pages was scraped to its return with six
\* GETs, the most the range allows, and rows were walked and kept.
C21_Witness ==
    /\ pc = "done"
    /\ PagesInRange = 2
    /\ GetsIssued = 6
    /\ Len(all_trades) >= 2


\* The rows of a table of the analyses that lie among its first 10 and are
\* of company c.
C22_Top(table, c) ==
    {k \in 1..Len(table) : k <= 10 /\ table[k].company = c}

\* The score the four tables give company c, as the pair of its numerator
\* and its denominator.
C22_Score(c) ==
    LET cluster == analyses.cluster_buying[1]
        ratio == analyses.buy_sell_ratio[1]
        whole ==
            (IF C22_Top(cluster, c) = {} THEN 0
             ELSE 2 * cluster[CHOOSE k \in C22_Top(cluster, c) : TRUE]
                        .unique_buyers)
            + (IF C22_Top(analyses.executive_buying[1], c) = {} THEN 0 ELSE 3)
            + (IF C22_Top(analyses.recent_activity[1], c) = {} THEN 0 ELSE 2)
    IN  IF C22_Top(ratio, c) = {}
        THEN [num |-> whole, den |-> 1]
        ELSE LET r == ratio[CHOOSE k \in C22_Top(ratio, c) : TRUE]
             IN  [num |-> whole * r.total_value + 2 * r.buy_value,
                  den |-> r.total_value]

\* C22: the recommendations hold each company at most once, in
\* non-increasing order of opportunity_score, and the score of a company is
\* 2 * unique_buyers if it is among the first 10 rows of cluster_buying, plus
\* 3 if among the first 10 of executive_buying, plus 2 if among the first 10
\* of recent_activity, plus 2 * buy_ratio if among the first 10 of
\* buy_sell_ratio.
C22_ScoresAreWeightedSums ==
    analyses.recommendations # None =>
        LET recs == analyses.recommendations[1]
        IN  /\ \A j, k \in 1..Len(recs) :
                  j # k => recs[j].company # recs[k].company
            /\ \A k \in 1..(Len(recs) - 1) :
                  recs[k].opportunity_score.num
                        * recs[k + 1].opportunity_score.den
                    >= recs[k + 1].opportunity_score.num
                        * recs[k].opportunity_score.den
            /\ \A k \in 1..Len(recs) :
                  recs[k].opportunity_score.num * C22_Score(recs[k].company).den
                    = C22_Score(recs[k].company).num
                        * recs[k].opportunity_score.den

\* C22 witness: eleven companies are in executive_buying and in
\* recent_activity, ten of them are recommended, the first with 3 + 2 + 2,
\* and the last, which only the first 10 rows of executive_buying and of
\* recent_activity hold, with 3 + 2.
C22_Witness ==
    /\ analyses.recommendations # None
    /\ Len(analyses.executive_buying[1]) = 11
    /\ Len(analyses.recent_activity[1]) = 11
    /\ Len(analyses.recommendations[1]) = 10
    /\ analyses.recommendations[1][1].opportunity_score.num
          = 7 * analyses.recommendations[1][1].opportunity_score.den
    /\ analyses.recommendations[1][10].opportunity_score.num
          = 5 * analyses.recommendations[1][10].opportunity_score.den

\* The values of the cleaned trades of company c, summed.
C23_Traded(c) ==
    Sum(NotNull(SelectSeq(df_clean[1].rows, LAMBDA r : r.company = c),
                "total_value_eur"))

\* C23: no cleaned trade is both a buy and a sell, and so buy_value and
\* sell_value of a company together count no trade twice.
C23_BuyAndSellExclusive ==
    /\ df_clean # None =>
          \A k \in 1..Len(df_clean[1].rows) :
              ~(df_clean[1].rows[k].is_buy /\ df_clean[1].rows[k].is_sell)
    /\ analyses.buy_sell_ratio # None =>
          \A k \in 1..Len(analyses.buy_sell_ratio[1]) :
              LET r == analyses.buy_sell_ratio[1][k]
              IN  r.buy_value + r.sell_value <= C23_Traded(r.company)

\* C24: the entries of the report are numbered 1, 2, ..., k, with k at most
\* 5, and stand in non-increasing order of opportunity_score.
C24_ReportNumbersInOrder ==
    report # None =>
        /\ Len(report[1]) <= 5
        /\ \A k \in 1..Len(report[1]) : report[1][k].number = k
        /\ \A k \in 1..(Len(report[1]) - 1) :
              report[1][k].score.num * report[1][k + 1].score.den
                >= report[1][k + 1].score.num * report[1][k].score.den


\* The page numbers that parse from the links of the page.
C25_PageNumbers ==
    IF soup = None THEN {}
    ELSE {IntOf(SplitSecond(Href(soup[1][k]))) :
            k \in {j \in 1..Len(soup[1]) :
                      /\ FirstAt(Href(soup[1][j]), PAGE_PARAM, 1) # 0
                      /\ IntAccepts(SplitSecond(Href(soup[1][j])))}}

\* C25: get_pagination_info raises nothing and returns a value of at least
\* 1: 1 when the page has no pagination list or the list has no link, and
\* else the greatest of 1 and the page numbers that parse from the links;
\* a link whose page number does not parse changes nothing.
C25_MaxPageAtLeastOne ==
    /\ pg_pc \in {"idle", "call", "links", "returned"}
    /\ pg_pc = "returned" =>
          /\ pg_return # None
          /\ pg_return[1] >= 1
          /\ (soup = None \/ soup[1] = <<>>) => pg_return[1] = 1
          /\ pg_return[1] \in {1} \cup C25_PageNumbers
          /\ \A n \in C25_PageNumbers : pg_return[1] >= n

\* C25 witness: the list holds a link whose page number does not parse and
\* a link to page 12, and 12 was returned.
C25_Witness ==
    /\ pg_pc = "returned"
    /\ pg_return = Some(12)
    /\ soup # None
    /\ \E k \in 1..Len(soup[1]) :
          /\ FirstAt(Href(soup[1][k]), PAGE_PARAM, 1) # 0
          /\ ~IntAccepts(SplitSecond(Href(soup[1][k])))

====
